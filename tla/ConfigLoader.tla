----------------------------- MODULE ConfigLoader -----------------------------
(***************************************************************************)
(* What load_config makes of two parsed YAML files, the base and the       *)
(* accounts overlay, and whom the middleware then knows: the merge, the    *)
(* validators, and the registry.  Reload decides when this happens and     *)
(* takes ValidPairs from here; Gateway takes its configurations.           *)
(*                                                                         *)
(* A file is a function from the sections it has to what they hold:        *)
(*   resources  name -> (setting -> value)                                 *)
(*   accounts   a sequence of [dn, account], for a mapping in its order;   *)
(*              an account is [tenant, grants], and a grant is a function  *)
(*              from those of operations, read and write (fields.read and  *)
(*              fields.write) it has to sets of names                      *)
(*   authz      header -> name                                             *)
(* Anything in them may be Malformed, that is not of the type expected.    *)
(***************************************************************************)
EXTENDS AccessRules, Integers, Sequences, Functions

CONSTANTS
  Bases, Overlays, \* the files
  NoFile,          \* ACCOUNTS_CONFIG_PATH is not set
  Malformed,
  Words, Trim,     \* strings, and str.strip
  Blank            \* the empty string

Flags == {"read", "write", "required", "nullable", "primary_key", "auto"}

Has(file, section) == section \in DOMAIN file
Setting(raw, key, default) == IF key \in DOMAIN raw THEN raw[key] ELSE default

\* What YAML may hold where AppConfig looks for a setting of a resource, or an account.
IsSetting(setting, value) ==
  /\ setting = "fields" =>
       DOMAIN value \subseteq Fields /\ \A f \in DOMAIN value : value[f] \subseteq Flags
  /\ setting = "operations" => value \in [DOMAIN value -> BOOLEAN]
  /\ setting \in {"row_filters", "soft_delete"} => value \in BOOLEAN
  /\ setting = "aggregate" => DOMAIN value \subseteq {"group_by", "sum_fields"}

IsResource(raw) ==
  raw # Malformed => \A setting \in DOMAIN raw :
    raw[setting] # Malformed => IsSetting(setting, raw[setting])

IsEntry(entry) ==
  /\ entry.dn \in Words
  /\ entry.account # Malformed => entry.account.tenant \in Words \cup {Malformed}

IsFile(file) ==
  /\ Has(file, "resources") /\ file["resources"] # Malformed =>
       \A name \in DOMAIN file["resources"] : IsResource(file["resources"][name])
  /\ Has(file, "accounts") /\ file["accounts"] # Malformed =>
       /\ file["accounts"] \in Seq(Range(file["accounts"]))
       /\ \A k \in DOMAIN file["accounts"] : IsEntry(file["accounts"][k])

ASSUME ConfigLoaderAssumption ==
  /\ Trim \in [Words -> Words]
  /\ Blank \in Words
  /\ Malformed \notin Words
  /\ \A file \in Bases \cup Overlays : IsFile(file)

VARIABLES
  stage,   \* "merge", "validate", "loaded", "refused" or "called"
  base, overlay,
  doc,     \* the merged mapping
  config,  \* AppConfig, as AccessRules has it
  header,  \* the DN header of a request
  caller   \* the account the middleware takes it for

vars == <<stage, base, overlay, doc, config, header, caller>>

NoConfig == [resources |-> <<>>, accounts |-> <<>>]
Nobody == [dn |-> Blank, tenant |-> Blank]

-----------------------------------------------------------------------------
(* merge_accounts_overlay *)

Override(old, new) ==
  [key \in DOMAIN old \cup DOMAIN new |-> IF key \in DOMAIN new THEN new[key] ELSE old[key]]

\* Resources of the base, none when the section is missing.
Named == IF Has(base, "resources") THEN base["resources"] ELSE <<>>

\* The merge does not raise: the sections are mappings, and the overlay names no resource
\* that the base has not.
Mergeable ==
  /\ Has(overlay, "authz") => Malformed \notin {overlay["authz"], Setting(base, "authz", <<>>)}
  /\ Has(overlay, "resources") =>
       /\ Malformed \notin {overlay["resources"], Named}
       /\ DOMAIN overlay["resources"] \subseteq DOMAIN Named
       /\ \A name \in DOMAIN Named : Named[name] # Malformed
       /\ \A name \in DOMAIN overlay["resources"] : overlay["resources"][name] # Malformed

\* Mutant of MergedResources: an override takes the place of the whole resource.
MergedResourcesReplaced ==
  [name \in DOMAIN Named |->
     IF name \in DOMAIN overlay["resources"] THEN overlay["resources"][name] ELSE Named[name]]

MergedResources ==
  [name \in DOMAIN Named |->
     IF name \in DOMAIN overlay["resources"]
       THEN Override(Named[name], overlay["resources"][name])
       ELSE Named[name]]

\* The overlay's registry takes the place of the base's.
MergedAccounts == overlay["accounts"]

\* Any other section of the overlay is ignored.
Merged ==
  [section \in DOMAIN base \cup (DOMAIN overlay \cap {"accounts", "authz", "resources"}) |->
     IF section \notin DOMAIN overlay \cap {"accounts", "authz", "resources"} THEN base[section]
     ELSE IF section = "accounts" THEN MergedAccounts
     ELSE IF section = "authz" THEN Override(Setting(base, "authz", <<>>), overlay["authz"])
     ELSE MergedResources]

-----------------------------------------------------------------------------
(* AppConfig.model_validate *)

\* ResourceConfig: table and fields are there, and fields declares the primary key.
ResourceValid(raw) ==
  /\ raw # Malformed
  /\ {"table", "fields"} \subseteq DOMAIN raw
  /\ \A setting \in DOMAIN raw : raw[setting] # Malformed
  /\ Setting(raw, "pk", "id") \in DOMAIN raw["fields"]

Writable(flags) == "write" \in flags /\ flags \cap {"primary_key", "auto"} = {}

\* A resource with its defaults.
Resource(raw) ==
  LET fields == raw["fields"]
      operations == Setting(raw, "operations", <<>>)
      aggregate == Setting(raw, "aggregate", <<>>)
  IN  [ops |-> {op \in Operations : Setting(operations, op, TRUE)},
       fields |-> DOMAIN fields,
       read |-> {f \in DOMAIN fields : "read" \in fields[f]},
       write |-> {f \in DOMAIN fields : Writable(fields[f])},
       required |-> {f \in DOMAIN fields : /\ Writable(fields[f])
                                           /\ "required" \in fields[f]
                                           /\ "nullable" \notin fields[f]},
       filterable |-> Setting(raw, "filterable", {}),
       upsertKeys |-> Setting(raw, "upsert_keys", {}),
       groupBy |-> Setting(aggregate, "group_by", {}),
       sumFields |-> Setting(aggregate, "sum_fields", {}),
       rowFilter |-> Setting(raw, "row_filters", FALSE),
       softDelete |-> Setting(raw, "soft_delete", FALSE)]

Entries(file) == IF Has(file, "accounts") THEN file["accounts"] ELSE <<>>

\* Mutant of Name: DNs are kept as they are written.
NameAsWritten(entry) == entry.dn

\* normalize_account_dns.
Name(entry) == Trim[entry.dn]

\* Two DNs that differ in blanks only are one account, and the last one is it.
Last(entries, dn) ==
  CHOOSE k \in DOMAIN entries :
    Name(entries[k]) = dn /\ \A j \in DOMAIN entries : Name(entries[j]) = dn => j <= k

Registry(entries) ==
  [dn \in {Name(entries[k]) : k \in DOMAIN entries} |-> entries[Last(entries, dn)].account]

AccessOf(grant) ==
  [ops |-> Setting(grant, "operations", Unrestricted),
   read |-> Setting(grant, "read", Unrestricted),
   write |-> Setting(grant, "write", Unrestricted)]

AccountOf(account) ==
  [tenant |-> Trim[account.tenant],
   grants |-> [res \in DOMAIN account.grants |-> AccessOf(account.grants[res])]]

\* Mutant of GrantValid: the fields a grant names are not checked.
GrantValidAnyField(res, grant) ==
  /\ res \in DOMAIN doc["resources"]
  /\ grant # Malformed
  /\ \A part \in DOMAIN grant : grant[part] # Malformed
  /\ "operations" \in DOMAIN grant =>
       grant["operations"] \subseteq Resource(doc["resources"][res]).ops

\* A grant is for a known resource, its enabled operations and its declared fields.
GrantValid(res, grant) ==
  /\ res \in DOMAIN doc["resources"]
  /\ grant # Malformed
  /\ \A part \in DOMAIN grant : grant[part] # Malformed
  /\ "operations" \in DOMAIN grant =>
       grant["operations"] \subseteq Resource(doc["resources"][res]).ops
  /\ \A side \in DOMAIN grant \cap {"read", "write"} :
       grant[side] \subseteq DOMAIN doc["resources"][res]["fields"]

AccountValid(dn, account) ==
  /\ dn # Blank
  /\ account # Malformed
  /\ account.tenant # Malformed /\ Trim[account.tenant] # Blank
  /\ account.grants # Malformed
  /\ \A res \in DOMAIN account.grants : GrantValid(res, account.grants[res])

Sections == {"gateway", "authz", "resources", "accounts"}

Valid ==
  /\ DOMAIN doc \subseteq Sections
  /\ \A section \in DOMAIN doc : doc[section] # Malformed
  /\ Has(doc, "resources") /\ DOMAIN doc["resources"] # {}
  /\ \A name \in DOMAIN doc["resources"] : ResourceValid(doc["resources"][name])
  /\ \A dn \in DOMAIN Registry(Entries(doc)) : AccountValid(dn, Registry(Entries(doc))[dn])

Loaded ==
  [resources |-> [name \in DOMAIN doc["resources"] |-> Resource(doc["resources"][name])],
   accounts |-> [dn \in DOMAIN Registry(Entries(doc)) |-> AccountOf(Registry(Entries(doc))[dn])]]

-----------------------------------------------------------------------------
Init ==
  /\ stage = "merge"
  /\ base \in Bases
  /\ overlay \in Overlays \cup {NoFile}
  /\ doc = <<>>
  /\ config = NoConfig
  /\ header = Blank
  /\ caller = Nobody

\* load_config, up to its last line.
Merge ==
  /\ stage = "merge"
  /\ \/ /\ overlay = NoFile
        /\ stage' = "validate"
        /\ doc' = base
     \/ /\ overlay # NoFile /\ Mergeable
        /\ stage' = "validate"
        /\ doc' = Merged
     \/ /\ overlay # NoFile /\ ~Mergeable
        /\ stage' = "refused"
        /\ UNCHANGED doc
  /\ UNCHANGED <<base, overlay, config, header, caller>>

\* AppConfig.model_validate, and apply_config.
Validate ==
  /\ stage = "validate"
  /\ \/ Valid /\ stage' = "loaded" /\ config' = Loaded
     \/ ~Valid /\ stage' = "refused" /\ UNCHANGED config
  /\ UNCHANGED <<base, overlay, doc, header, caller>>

\* The middleware looks the trimmed DN up in account_tenants.
Identify(dn) ==
  /\ stage = "loaded"
  /\ stage' = "called"
  /\ header' = dn
  /\ caller' = IF Trim[dn] # Blank /\ Trim[dn] \in DOMAIN config.accounts
                 THEN [dn |-> Trim[dn], tenant |-> config.accounts[Trim[dn]].tenant]
                 ELSE Nobody
  /\ UNCHANGED <<base, overlay, doc, config>>

Finished == stage \in {"refused", "called"} /\ UNCHANGED vars

Next == Merge \/ Validate \/ (\E dn \in Words : Identify(dn)) \/ Finished

Spec == Init /\ [][Next]_vars

-----------------------------------------------------------------------------
(* Properties *)

IsLoaded == stage \in {"loaded", "called"}

Gate == INSTANCE Handlers WITH
  Tenants <- Words \ {Blank}, NoTenant <- Blank,
  Ids <- {}, Texts <- {Blank}, Statuses <- {Blank}, DefaultStatus <- Blank,
  Unborn <- Malformed, Erased <- Malformed, Rls <- FALSE

\* Whatever two files hold, a configuration that loads is one the handlers are ready for:
\* its grants name resources it has, operations it has enabled and fields it declares, the
\* overlay's changes to them included, and every account has a tenant
\* (models.py:174-220).
LoadedIsConfig == IsLoaded => Gate!IsConfig(config)

\* The file the registry comes from: the overlay takes the base's place.
Registered ==
  IF overlay # NoFile /\ Has(overlay, "accounts") THEN overlay["accounts"] ELSE Entries(base)

Candidates(dn) == {k \in DOMAIN Registered : Trim[Registered[k].dn] = Trim[dn]}

\* A caller is known if and only if the newest registry has its DN, blanks around either
\* apart, and then works for the tenant and with the grants of one and the same entry for
\* it: no account of the base outlives an overlay without it
\* (access-control/spec.md:11-27).
CallerIsRegistered ==
  stage = "called" =>
    /\ caller # Nobody <=> Candidates(header) # {}
    /\ caller # Nobody =>
         \E k \in Candidates(header) :
           LET account == Registered[k].account
           IN  caller.tenant = Trim[account.tenant]
               /\ config.accounts[caller.dn].grants = AccountOf(account).grants

\* The parts of a resource's rules that a setting decides.
Decides(setting) ==
  CASE setting = "fields" -> {"fields", "read", "write", "required"}
    [] setting = "operations" -> {"ops"}
    [] setting = "filterable" -> {"filterable"}
    [] setting = "upsert_keys" -> {"upsertKeys"}
    [] setting = "aggregate" -> {"groupBy", "sumFields"}
    [] setting = "row_filters" -> {"rowFilter"}
    [] setting = "soft_delete" -> {"softDelete"}
    [] OTHER -> {}

\* The settings of a resource that the overlay has.
Overridden(name) ==
  IF overlay # NoFile /\ Has(overlay, "resources") /\ name \in DOMAIN overlay["resources"]
    THEN DOMAIN overlay["resources"][name]
    ELSE {}

\* An overlay neither adds nor drops a resource, and what it does not name stays as the
\* base file has it: row filters and soft deletion are not lost on the way
\* (loader.py:51-52).
OverlayKeepsRest ==
  IsLoaded =>
    /\ DOMAIN config.resources = DOMAIN base["resources"]
    /\ \A name \in DOMAIN config.resources :
         \A part \in DOMAIN config.resources[name]
                     \ UNION {Decides(setting) : setting \in Overridden(name)} :
           config.resources[name][part] = Resource(base["resources"][name])[part]
=============================================================================
