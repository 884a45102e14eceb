------------------------- MODULE ConfigLoader_proofs -------------------------
(***************************************************************************)
(* What loads is fit for the handlers, and callers are known by the newest *)
(* registry, for any two files.                                            *)
(***************************************************************************)
EXTENDS ConfigLoader, WellFoundedInduction, TLAPS

\* Names of the resources a file has, and their settings, are of the types expected.
Typed(file) ==
  Has(file, "resources") /\ file["resources"] # Malformed =>
    \A name \in DOMAIN file["resources"] : IsResource(file["resources"][name])

\* Until it is refused the document is the merged one; once loaded it is valid.
IInv ==
  /\ base \in Bases /\ overlay \in Overlays \cup {NoFile}
  /\ stage \in {"validate", "loaded", "called"} =>
       /\ doc = IF overlay = NoFile THEN base ELSE Merged
       /\ Typed(doc) /\ Entries(doc) = Registered
  /\ IsLoaded => Valid /\ config = Loaded
  /\ stage = "called" =>
       /\ header \in Words
       /\ caller = IF Trim[header] # Blank /\ Trim[header] \in DOMAIN config.accounts
                     THEN [dn |-> Trim[header],
                           tenant |-> config.accounts[Trim[header]].tenant]
                     ELSE Nobody

-----------------------------------------------------------------------------
(* The merge *)

LEMMA OverrideTyped ==
  ASSUME NEW old, old # Malformed, IsResource(old), NEW new, new # Malformed, IsResource(new)
  PROVE  IsResource(Override(old, new))
BY DEF IsResource, Override

LEMMA FilesTyped == \A file \in Bases \cup Overlays : IsFile(file) /\ Typed(file)
BY ConfigLoaderAssumption DEF IsFile, Typed

LEMMA MergedEntries ==
  ASSUME overlay # NoFile
  PROVE  Entries(Merged) = Registered
<1> DEFINE sections == {"accounts", "authz", "resources"}
<1>1. DOMAIN Merged = DOMAIN base \cup (DOMAIN overlay \cap sections)
  BY DEF Merged
<1>2. CASE "accounts" \in DOMAIN overlay
  <2>1. Merged["accounts"] = overlay["accounts"]
    BY <1>2 DEF Merged, MergedAccounts
  <2> QED BY <1>1, <1>2, <2>1 DEF Entries, Registered, Has
<1>3. CASE "accounts" \notin DOMAIN overlay
  <2>1. "accounts" \in DOMAIN Merged <=> "accounts" \in DOMAIN base
    BY <1>1, <1>3
  <2>2. "accounts" \in DOMAIN base => Merged["accounts"] = base["accounts"]
    BY <1>3 DEF Merged
  <2> QED BY <1>3, <2>1, <2>2 DEF Entries, Registered, Has
<1> QED BY <1>2, <1>3

LEMMA MergedTyped ==
  ASSUME base \in Bases, overlay \in Overlays, Mergeable
  PROVE  Typed(Merged)
<1> DEFINE sections == {"accounts", "authz", "resources"}
<1>1. Typed(base) /\ Typed(overlay)
  BY FilesTyped
<1>2. CASE ~Has(overlay, "resources")
  <2>1. Has(Merged, "resources") => Has(base, "resources") /\ Merged["resources"] = base["resources"]
    BY <1>2 DEF Merged, Has
  <2> QED BY <1>1, <2>1 DEF Typed
<1>3. CASE Has(overlay, "resources")
  <2>1. Merged["resources"] = MergedResources
    BY <1>3 DEF Merged, Has
  <2>2. /\ overlay["resources"] # Malformed /\ Named # Malformed
        /\ \A name \in DOMAIN Named : Named[name] # Malformed
        /\ \A name \in DOMAIN overlay["resources"] : overlay["resources"][name] # Malformed
    BY <1>3 DEF Mergeable
  <2>3. ASSUME NEW name \in DOMAIN Named
        PROVE  IsResource(Named[name])
    BY <1>1, <2>2, <2>3 DEF Named, Typed
  <2>4. ASSUME NEW name \in DOMAIN Named
        PROVE  IsResource(MergedResources[name])
    BY <1>1, <1>3, <2>2, <2>3, OverrideTyped DEF MergedResources, Typed
  <2>5. DOMAIN MergedResources = DOMAIN Named
    BY DEF MergedResources
  <2> QED BY <2>1, <2>4, <2>5 DEF Typed
<1> QED BY <1>2, <1>3

-----------------------------------------------------------------------------
(* The registry *)

\* Every entry's name has a last entry.
LEMMA LastEntry ==
  ASSUME NEW entries, entries \in Seq(Range(entries)), NEW k0 \in DOMAIN entries
  PROVE  LET l == Last(entries, Name(entries[k0]))
         IN  l \in DOMAIN entries /\ Name(entries[l]) = Name(entries[k0])
<1> DEFINE dn == Name(entries[k0])
           same == {k \in DOMAIN entries : Name(entries[k]) = dn}
           after == {Len(entries) - k : k \in same}
<1>1. DOMAIN entries = 1..Len(entries) /\ Len(entries) \in Nat
  OBVIOUS
<1>2. after \subseteq Nat /\ after # {}
  BY <1>1
<1>3. PICK x \in after : \A y \in after : ~ (<<y, x>> \in OpToRel(<, Nat))
  BY <1>2, NatLessThanWellFounded, WFMin
<1>4. PICK k \in same : x = Len(entries) - k
  BY <1>3
<1>5. ASSUME NEW j \in same PROVE j <= k
  <2>1. Len(entries) - j \in after
    OBVIOUS
  <2>2. ~ (Len(entries) - j < Len(entries) - k)
    BY <1>2, <1>3, <1>4, <2>1 DEF OpToRel
  <2> QED BY <1>1, <2>2
<1>6. \E l \in DOMAIN entries :
        Name(entries[l]) = dn /\ \A j \in DOMAIN entries : Name(entries[j]) = dn => j <= l
  BY <1>5
<1> QED BY <1>6 DEF Last

LEMMA RegistryEntry ==
  ASSUME NEW entries, entries \in Seq(Range(entries)), NEW dn \in DOMAIN Registry(entries)
  PROVE  \E k \in DOMAIN entries :
           Name(entries[k]) = dn /\ Registry(entries)[dn] = entries[k].account
<1>1. PICK k0 \in DOMAIN entries : dn = Name(entries[k0])
  BY DEF Registry
<1>2. Last(entries, dn) \in DOMAIN entries /\ Name(entries[Last(entries, dn)]) = dn
  BY <1>1, LastEntry
<1>3. Registry(entries)[dn] = entries[Last(entries, dn)].account
  BY DEF Registry
<1> QED BY <1>2, <1>3

\* A document that passed the merge has a registry of well-formed entries.
LEMMA RegisteredEntries ==
  ASSUME base \in Bases, overlay \in Overlays \cup {NoFile},
         Registered = <<>> \/ Registered # Malformed
  PROVE  /\ Registered \in Seq(Range(Registered))
         /\ \A k \in DOMAIN Registered : IsEntry(Registered[k])
<1>1. IsFile(base) /\ (overlay # NoFile => IsFile(overlay))
  BY FilesTyped
<1>0. CASE Registered = <<>>
  BY <1>0
<1>2. CASE Registered # <<>> /\ overlay # NoFile /\ Has(overlay, "accounts")
  BY <1>1, <1>2 DEF Registered, IsFile
<1>3. CASE /\ Registered # <<>> /\ Has(base, "accounts")
           /\ ~(overlay # NoFile /\ Has(overlay, "accounts"))
  BY <1>1, <1>3 DEF Registered, IsFile, Entries
<1>4. CASE ~(overlay # NoFile /\ Has(overlay, "accounts")) /\ ~Has(base, "accounts")
  <2>1. Registered = <<>>
    BY <1>4 DEF Registered, Entries
  <2> QED BY <2>1
<1> QED BY <1>0, <1>2, <1>3, <1>4

-----------------------------------------------------------------------------
(* What loads *)

LEMMA LoadedResource ==
  ASSUME NEW raw, IsResource(raw), ResourceValid(raw)
  PROVE  /\ Resource(raw).fields = DOMAIN raw["fields"]
         /\ Resource(raw).fields \subseteq Fields
         /\ Resource(raw).read \cup Resource(raw).write \subseteq Resource(raw).fields
         /\ Resource(raw).softDelete \in BOOLEAN
<1>1. "fields" \in DOMAIN raw /\ raw["fields"] # Malformed /\ raw # Malformed
  BY DEF ResourceValid
<1>2. DOMAIN raw["fields"] \subseteq Fields
  BY <1>1 DEF IsResource, IsSetting
<1>3. /\ Resource(raw).fields = DOMAIN raw["fields"]
      /\ Resource(raw).read = {f \in DOMAIN raw["fields"] : "read" \in raw["fields"][f]}
      /\ Resource(raw).write = {f \in DOMAIN raw["fields"] : Writable(raw["fields"][f])}
  BY DEF Resource
<1>4. Resource(raw).softDelete = Setting(raw, "soft_delete", FALSE)
  BY DEF Resource
<1>5. Setting(raw, "soft_delete", FALSE) \in BOOLEAN
  <2>1. CASE "soft_delete" \in DOMAIN raw
    <3>1. raw["soft_delete"] # Malformed
      BY <2>1 DEF ResourceValid
    <3>2. raw["soft_delete"] \in BOOLEAN
      BY <1>1, <2>1, <3>1, Zenon DEF IsResource, IsSetting
    <3> QED BY <2>1, <3>2, Zenon DEF Setting
  <2>2. CASE "soft_delete" \notin DOMAIN raw
    BY <2>2, Zenon DEF Setting
  <2> QED BY <2>1, <2>2
<1> QED BY <1>2, <1>3, <1>4, <1>5, Zenon

LEMMA GrantLoads ==
  ASSUME NEW res, NEW grant, GrantValid(res, grant)
  PROVE  /\ \/ AccessOf(grant).ops = Unrestricted
            \/ AccessOf(grant).ops \subseteq Resource(doc["resources"][res]).ops
         /\ \A side \in {AccessOf(grant).read, AccessOf(grant).write} :
              side = Unrestricted \/ side \subseteq DOMAIN doc["resources"][res]["fields"]
<1>1. /\ AccessOf(grant).ops = Setting(grant, "operations", Unrestricted)
      /\ AccessOf(grant).read = Setting(grant, "read", Unrestricted)
      /\ AccessOf(grant).write = Setting(grant, "write", Unrestricted)
  BY DEF AccessOf
<1>2. "operations" \in DOMAIN grant =>
        grant["operations"] \subseteq Resource(doc["resources"][res]).ops
  BY Zenon DEF GrantValid
<1>3. ASSUME NEW side \in {"read", "write"}, side \in DOMAIN grant
      PROVE  grant[side] \subseteq DOMAIN doc["resources"][res]["fields"]
  BY <1>3, Zenon DEF GrantValid
<1>4. /\ AccessOf(grant).ops = Unrestricted
         \/ AccessOf(grant).ops \subseteq Resource(doc["resources"][res]).ops
      /\ AccessOf(grant).read = Unrestricted
         \/ AccessOf(grant).read \subseteq DOMAIN doc["resources"][res]["fields"]
      /\ AccessOf(grant).write = Unrestricted
         \/ AccessOf(grant).write \subseteq DOMAIN doc["resources"][res]["fields"]
  BY <1>1, <1>2, <1>3, Zenon DEF Setting
<1> QED BY <1>4, Zenon

\* Every account of the registry comes from a well-formed entry.
LEMMA RegistryTyped ==
  ASSUME base \in Bases, overlay \in Overlays \cup {NoFile}, Entries(doc) = Registered, Valid
  PROVE  /\ Registered \in Seq(Range(Registered))
         /\ \A k \in DOMAIN Registered : IsEntry(Registered[k])
<1>1. Has(doc, "accounts") => doc["accounts"] # Malformed
  BY Zenon DEF Valid, Has
<1>2. Registered = <<>> \/ Registered # Malformed
  BY <1>1 DEF Entries
<1> QED BY <1>2, RegisteredEntries

LEMMA ValidLoads ==
  ASSUME base \in Bases, overlay \in Overlays \cup {NoFile},
         Typed(doc), Entries(doc) = Registered, Valid
  PROVE  Gate!IsConfig(Loaded)
<1> DEFINE resources == doc["resources"]
           registry == Registry(Entries(doc))
<1>1. Has(doc, "resources") /\ resources # Malformed /\ DOMAIN resources # {}
  BY Zenon DEF Valid, Has
<1>2. ASSUME NEW res \in DOMAIN resources
      PROVE  /\ Resource(resources[res]).fields = DOMAIN resources[res]["fields"]
             /\ Resource(resources[res]).fields \subseteq Fields
             /\ Resource(resources[res]).read \cup Resource(resources[res]).write
                  \subseteq Resource(resources[res]).fields
             /\ Resource(resources[res]).softDelete \in BOOLEAN
  <2>1. IsResource(resources[res]) /\ ResourceValid(resources[res])
    BY <1>1, Zenon DEF Typed, Valid
  <2> QED BY <2>1, LoadedResource, Zenon
<1>3. ASSUME NEW dn \in DOMAIN registry
      PROVE  /\ registry[dn] # Malformed
             /\ AccountOf(registry[dn]).tenant \in Words \ {Blank}
             /\ \A res \in DOMAIN registry[dn].grants : GrantValid(res, registry[dn].grants[res])
  <2>1. AccountValid(dn, registry[dn])
    BY <1>3, Zenon DEF Valid
  <2>2. Entries(doc) \in Seq(Range(Entries(doc)))
        /\ \A k \in DOMAIN Entries(doc) : IsEntry(Entries(doc)[k])
    BY RegistryTyped
  <2>3. PICK k \in DOMAIN Entries(doc) : registry[dn] = Entries(doc)[k].account
    BY <1>3, <2>2, RegistryEntry
  <2>4. registry[dn].tenant \in Words
    BY <2>1, <2>2, <2>3 DEF AccountValid, IsEntry
  <2>5. Trim[registry[dn].tenant] \in Words /\ Trim[registry[dn].tenant] # Blank
    BY <2>1, <2>4, ConfigLoaderAssumption DEF AccountValid
  <2>6. AccountOf(registry[dn]).tenant = Trim[registry[dn].tenant]
    BY DEF AccountOf
  <2> QED BY <2>1, <2>5, <2>6 DEF AccountValid
<1>4. /\ DOMAIN Loaded.resources = DOMAIN resources
      /\ \A res \in DOMAIN resources : Loaded.resources[res] = Resource(resources[res])
      /\ DOMAIN Loaded.accounts = DOMAIN registry
      /\ \A dn \in DOMAIN registry : Loaded.accounts[dn] = AccountOf(registry[dn])
  BY DEF Loaded
<1>5. \A res \in DOMAIN Loaded.resources :
        /\ Loaded.resources[res].fields \subseteq Fields
        /\ Loaded.resources[res].read \cup Loaded.resources[res].write
             \subseteq Loaded.resources[res].fields
        /\ Loaded.resources[res].softDelete \in BOOLEAN
  BY <1>2, <1>4, Zenon
<1>6. \A dn \in DOMAIN Loaded.accounts : Loaded.accounts[dn].tenant \in Words \ {Blank}
  BY <1>3, <1>4, Zenon
<1>7. ASSUME NEW dn \in DOMAIN Loaded.accounts, NEW res \in DOMAIN Loaded.accounts[dn].grants
      PROVE  LET grant == Loaded.accounts[dn].grants[res]
             IN  /\ res \in DOMAIN Loaded.resources
                 /\ grant.ops = Unrestricted \/ grant.ops \subseteq Loaded.resources[res].ops
                 /\ \A side \in {grant.read, grant.write} :
                      side = Unrestricted \/ side \subseteq Loaded.resources[res].fields
  <2>1. dn \in DOMAIN registry /\ Loaded.accounts[dn] = AccountOf(registry[dn])
    BY <1>4, <1>7
  <2>2. /\ DOMAIN Loaded.accounts[dn].grants = DOMAIN registry[dn].grants
        /\ Loaded.accounts[dn].grants[res] = AccessOf(registry[dn].grants[res])
    BY <1>7, <2>1 DEF AccountOf
  <2>3. GrantValid(res, registry[dn].grants[res])
    BY <1>3, <1>7, <2>1, <2>2, Zenon
  <2>4. res \in DOMAIN resources
    BY <2>3, Zenon DEF GrantValid
  <2>5. Loaded.resources[res] = Resource(resources[res])
    BY <1>4, <2>4
  <2>6. Loaded.resources[res].fields = DOMAIN resources[res]["fields"]
    BY <1>2, <2>4, <2>5, Zenon
  <2> DEFINE grant == Loaded.accounts[dn].grants[res]
  <2>7. /\ grant.ops = Unrestricted \/ grant.ops \subseteq Resource(resources[res]).ops
        /\ \A side \in {grant.read, grant.write} :
             side = Unrestricted \/ side \subseteq DOMAIN resources[res]["fields"]
    BY <2>2, <2>3, GrantLoads, Zenon
  <2> QED BY <1>4, <2>4, <2>5, <2>6, <2>7, Zenon
<1> HIDE DEF resources, registry
<1>8. DOMAIN Loaded.resources # {}
  BY <1>1, <1>4
<1> QED BY <1>5, <1>6, <1>7, <1>8 DEF Gate!IsConfig, Gate!Grant, Gate!Fields, Fields

-----------------------------------------------------------------------------
(* The steps *)

LEMMA InvInit == Init => IInv
BY ConfigLoaderAssumption DEF Init, IInv, IsLoaded

LEMMA MergedUnchanged == ASSUME UNCHANGED <<base, overlay>> PROVE Merged' = Merged
BY DEF Merged, MergedResources, MergedAccounts, Named

LEMMA MergeKeeps == IInv /\ Merge => IInv'
<1> SUFFICES ASSUME IInv, Merge PROVE IInv'
  OBVIOUS
<1>1. base \in Bases /\ overlay \in Overlays \cup {NoFile} /\ UNCHANGED <<base, overlay>>
  BY DEF IInv, Merge
<1>2. ~IsLoaded' /\ stage' # "called"
  BY DEF Merge, IsLoaded
<1>3. CASE overlay = NoFile /\ stage' = "validate" /\ doc' = base
  <2>1. Typed(base)
    BY <1>1, FilesTyped
  <2>2. Entries(base) = Registered
    BY <1>3 DEF Registered
  <2>3. Typed(doc') /\ Entries(doc') = Registered'
    BY <1>1, <1>3, <2>1, <2>2 DEF Registered
  <2> QED BY <1>1, <1>2, <1>3, <2>3 DEF IInv, IsLoaded, Typed, Entries
<1>4. CASE overlay # NoFile /\ Mergeable /\ stage' = "validate" /\ doc' = Merged
  <2>1. Typed(Merged)
    BY <1>1, <1>4, MergedTyped
  <2>2. Entries(Merged) = Registered
    BY <1>4, MergedEntries
  <2>3. Typed(doc') /\ Entries(doc') = Registered'
    BY <1>1, <1>4, <2>1, <2>2 DEF Registered
  <2>4. Merged' = Merged
    BY <1>1, MergedUnchanged
  <2>5. doc' = IF overlay' = NoFile THEN base' ELSE Merged'
    BY <1>1, <1>4, <2>4
  <2> QED BY <1>1, <1>2, <2>3, <2>5 DEF IInv, IsLoaded, Typed, Entries
<1>5. CASE stage' = "refused"
  BY <1>1, <1>2, <1>5 DEF IInv, IsLoaded
<1> QED BY <1>3, <1>4, <1>5 DEF Merge

LEMMA UnchangedFiles ==
  ASSUME UNCHANGED <<base, overlay, doc>>
  PROVE  /\ Registered' = Registered
         /\ Typed(doc)' = Typed(doc) /\ Entries(doc)' = Entries(doc)
         /\ Valid' = Valid /\ Loaded' = Loaded /\ Merged' = Merged
<1>1. Registered' = Registered
  BY DEF Registered
<1>2. Typed(doc)' = Typed(doc) /\ Entries(doc)' = Entries(doc)
  BY DEF Typed, Entries
<1>3. Valid' = Valid
  BY DEF Valid, Entries, GrantValid, AccountValid
<1>4. Loaded' = Loaded
  BY DEF Loaded, Entries
<1> QED BY <1>1, <1>2, <1>3, <1>4, MergedUnchanged

LEMMA ValidateKeeps == IInv /\ Validate => IInv'
<1> SUFFICES ASSUME IInv, Validate PROVE IInv'
  OBVIOUS
<1>1. UNCHANGED <<base, overlay, doc>> /\ stage = "validate" /\ stage' # "called"
  BY DEF Validate
<1>2. stage' = "loaded" => Valid /\ config' = Loaded
  BY DEF Validate
<1>3. stage' \in {"loaded", "refused"}
  BY DEF Validate
<1>4. base' \in Bases /\ overlay' \in Overlays \cup {NoFile}
  BY <1>1 DEF IInv
<1>5. /\ Typed(doc)' /\ Entries(doc)' = Registered'
      /\ doc' = IF overlay' = NoFile THEN base' ELSE Merged'
  BY <1>1, UnchangedFiles DEF IInv
<1>6. IsLoaded' => Valid' /\ config' = Loaded'
  BY <1>1, <1>2, <1>3, UnchangedFiles DEF IsLoaded
<1> QED BY <1>1, <1>4, <1>5, <1>6 DEF IInv

LEMMA IdentifyKeeps == ASSUME NEW dn \in Words PROVE IInv /\ Identify(dn) => IInv'
<1> SUFFICES ASSUME IInv, Identify(dn) PROVE IInv'
  OBVIOUS
<1>1. UNCHANGED <<base, overlay, doc, config>> /\ stage = "loaded" /\ header' = dn
  BY DEF Identify
<1>2. caller' = IF Trim[header'] # Blank /\ Trim[header'] \in DOMAIN config'.accounts
                  THEN [dn |-> Trim[header'],
                        tenant |-> config'.accounts[Trim[header']].tenant]
                  ELSE Nobody
  BY <1>1 DEF Identify
<1>3. base' \in Bases /\ overlay' \in Overlays \cup {NoFile}
  BY <1>1 DEF IInv
<1>4. /\ Typed(doc)' /\ Entries(doc)' = Registered' /\ Valid' /\ config' = Loaded'
      /\ doc' = IF overlay' = NoFile THEN base' ELSE Merged'
  BY <1>1, UnchangedFiles DEF IInv, IsLoaded
<1> QED BY <1>1, <1>2, <1>3, <1>4 DEF IInv, IsLoaded, Nobody

LEMMA StutterKeeps == IInv /\ UNCHANGED vars => IInv'
<1> SUFFICES ASSUME IInv, UNCHANGED vars PROVE IInv'
  OBVIOUS
<1>1. UNCHANGED <<stage, base, overlay, doc, config, header, caller>>
  BY DEF vars
<1> QED BY <1>1, UnchangedFiles DEF IInv, IsLoaded, Nobody

THEOREM Invariance == Spec => []IInv
<1>1. IInv /\ [Next]_vars => IInv'
  BY MergeKeeps, ValidateKeeps, IdentifyKeeps, StutterKeeps DEF Next, Finished
<1> QED BY InvInit, <1>1, PTL DEF Spec

-----------------------------------------------------------------------------
\* Whatever the two files hold, what loads is fit for the handlers: grants for known
\* resources, their enabled operations and declared fields, and a tenant for every account.
THEOREM LoadsConfig == Spec => []LoadedIsConfig
<1>1. IInv => LoadedIsConfig
  BY ValidLoads DEF IInv, LoadedIsConfig, IsLoaded
<1> QED BY Invariance, <1>1, PTL

\* A caller is known exactly by the newest registry, as one of its entries for the DN.
THEOREM CallersRegistered == Spec => []CallerIsRegistered
<1>1. IInv => CallerIsRegistered
  <2> SUFFICES ASSUME IInv, stage = "called" PROVE CallerIsRegistered
    BY DEF CallerIsRegistered
  <2> DEFINE registry == Registry(Registered)
             dn == Trim[header]
  <2>1. /\ Registered \in Seq(Range(Registered))
        /\ \A k \in DOMAIN Registered : IsEntry(Registered[k])
    BY RegistryTyped DEF IInv, IsLoaded
  <2>2. Entries(doc) = Registered /\ Valid /\ config = Loaded
    BY DEF IInv, IsLoaded
  <2>3. /\ DOMAIN config.accounts = DOMAIN registry
        /\ \A d \in DOMAIN registry : config.accounts[d] = AccountOf(registry[d])
    BY <2>2 DEF Loaded
  <2>4. DOMAIN registry = {Trim[Registered[k].dn] : k \in DOMAIN Registered}
    BY DEF Registry, Name
  <2>5. dn \in DOMAIN registry <=> Candidates(header) # {}
    BY <2>4 DEF Candidates
  <2>6. dn \in DOMAIN registry => dn # Blank
    BY <2>2 DEF Valid, AccountValid
  <2>7. /\ dn \in DOMAIN registry => caller = [dn |-> dn, tenant |-> config.accounts[dn].tenant]
        /\ dn \notin DOMAIN registry => caller = Nobody
    BY <2>3, <2>6 DEF IInv
  <2>8. caller # Nobody <=> dn \in DOMAIN registry
    BY <2>6, <2>7 DEF Nobody
  <2>9. ASSUME dn \in DOMAIN registry
        PROVE  \E k \in Candidates(header) :
                 /\ caller.tenant = Trim[Registered[k].account.tenant]
                 /\ config.accounts[caller.dn].grants = AccountOf(Registered[k].account).grants
    <3>1. PICK k \in DOMAIN Registered :
            Name(Registered[k]) = dn /\ registry[dn] = Registered[k].account
      BY <2>1, <2>9, RegistryEntry
    <3>2. config.accounts[dn] = AccountOf(Registered[k].account)
      BY <2>3, <2>9, <3>1
    <3>3. caller.dn = dn /\ caller.tenant = config.accounts[dn].tenant
      BY <2>7, <2>9
    <3>4. AccountOf(Registered[k].account).tenant = Trim[Registered[k].account.tenant]
      BY DEF AccountOf
    <3>5. k \in Candidates(header)
      BY <3>1 DEF Candidates, Name
    <3> QED BY <3>2, <3>3, <3>4, <3>5
  <2> QED BY <2>5, <2>8, <2>9 DEF CallerIsRegistered
<1> QED BY Invariance, <1>1, PTL

LEMMA OverrideKeepsRest ==
  ASSUME NEW old, NEW new, "fields" \in DOMAIN Override(old, new),
         NEW part \in {"ops", "fields", "read", "write", "required", "filterable",
                       "upsertKeys", "groupBy", "sumFields", "rowFilter", "softDelete"},
         part \notin UNION {Decides(setting) : setting \in DOMAIN new}
  PROVE  Resource(Override(old, new))[part] = Resource(old)[part]
<1> DEFINE raw == Override(old, new)
<1>1. ASSUME NEW key, key \notin DOMAIN new, NEW default
      PROVE  Setting(raw, key, default) = Setting(old, key, default)
  BY <1>1 DEF Override, Setting
<1>2. ASSUME "fields" \notin DOMAIN new PROVE raw["fields"] = old["fields"]
  BY <1>2 DEF Override
<1>3. ASSUME NEW setting \in DOMAIN new PROVE part \notin Decides(setting)
  OBVIOUS
<1> HIDE DEF raw
<1>4. CASE part \in {"fields", "read", "write", "required"}
  <2>1. "fields" \notin DOMAIN new
    BY <1>3, <1>4 DEF Decides
  <2>2. raw["fields"] = old["fields"]
    BY <1>2, <2>1
  <2>3. /\ Resource(raw).fields = Resource(old).fields
        /\ Resource(raw).read = Resource(old).read
        /\ Resource(raw).write = Resource(old).write
        /\ Resource(raw).required = Resource(old).required
    BY <2>2 DEF Resource
  <2> QED BY <1>4, <2>3 DEF raw
<1>5. CASE part = "ops"
  <2>1. "operations" \notin DOMAIN new
    BY <1>3, <1>5 DEF Decides
  <2>2. Setting(raw, "operations", <<>>) = Setting(old, "operations", <<>>)
    BY <1>1, <2>1
  <2> QED BY <1>5, <2>2 DEF Resource, raw
<1>6. CASE part = "filterable"
  <2>1. "filterable" \notin DOMAIN new
    BY <1>3, <1>6 DEF Decides
  <2> QED BY <1>1, <1>6, <2>1 DEF Resource, raw
<1>7. CASE part = "upsertKeys"
  <2>1. "upsert_keys" \notin DOMAIN new
    BY <1>3, <1>7 DEF Decides
  <2> QED BY <1>1, <1>7, <2>1 DEF Resource, raw
<1>8. CASE part = "rowFilter"
  <2>1. "row_filters" \notin DOMAIN new
    BY <1>3, <1>8 DEF Decides
  <2> QED BY <1>1, <1>8, <2>1, Zenon DEF Resource, raw
<1>9. CASE part = "softDelete"
  <2>1. "soft_delete" \notin DOMAIN new
    BY <1>3, <1>9 DEF Decides
  <2> QED BY <1>1, <1>9, <2>1, Zenon DEF Resource, raw
<1>10. CASE part \in {"groupBy", "sumFields"}
  <2>1. "aggregate" \notin DOMAIN new
    BY <1>3, <1>10 DEF Decides
  <2>2. Setting(raw, "aggregate", <<>>) = Setting(old, "aggregate", <<>>)
    BY <1>1, <2>1
  <2>3. /\ Resource(raw).groupBy = Resource(old).groupBy
        /\ Resource(raw).sumFields = Resource(old).sumFields
    BY <2>2 DEF Resource
  <2> QED BY <1>10, <2>3 DEF raw
<1> QED BY <1>4, <1>5, <1>6, <1>7, <1>8, <1>9, <1>10

\* An overlay adds and drops no resource, and changes no setting it does not name.
THEOREM OverlaysKeepRest == Spec => []OverlayKeepsRest
<1>1. IInv => OverlayKeepsRest
  <2> SUFFICES ASSUME IInv, IsLoaded PROVE OverlayKeepsRest
    BY DEF OverlayKeepsRest
  <2> DEFINE resources == doc["resources"]
  <2>1. doc = IF overlay = NoFile THEN base ELSE Merged
    BY DEF IInv, IsLoaded
  <2>2. Valid /\ config = Loaded
    BY DEF IInv, IsLoaded
  <2>3. /\ DOMAIN config.resources = DOMAIN resources
        /\ \A name \in DOMAIN resources : config.resources[name] = Resource(resources[name])
    BY <2>2 DEF Loaded
  <2>4. "resources" \in DOMAIN doc /\ DOMAIN resources # {}
    BY <2>2, Zenon DEF Valid, Has
  <2>5. CASE overlay = NoFile \/ ~Has(overlay, "resources")
    <3>1. resources = base["resources"]
      BY <2>1, <2>4, <2>5 DEF Merged, Has
    <3> QED BY <2>3, <3>1 DEF OverlayKeepsRest
  <2>6. CASE overlay # NoFile /\ Has(overlay, "resources")
    <3>1. resources = MergedResources
      BY <2>1, <2>6 DEF Merged, Has
    <3>2. DOMAIN resources = DOMAIN Named /\ Named = base["resources"]
      BY <2>4, <3>1 DEF MergedResources, Named
    <3>3. ASSUME NEW name \in DOMAIN resources,
                 NEW part \in DOMAIN Resource(resources[name])
                              \ UNION {Decides(setting) : setting \in Overridden(name)}
          PROVE  Resource(resources[name])[part] = Resource(base["resources"][name])[part]
      <4>1. CASE name \in DOMAIN overlay["resources"]
        <5>1. resources[name] = Override(Named[name], overlay["resources"][name])
          BY <3>1, <3>2, <4>1 DEF MergedResources
        <5>2. Overridden(name) = DOMAIN overlay["resources"][name]
          BY <2>6, <4>1 DEF Overridden
        <5>3. "fields" \in DOMAIN resources[name]
          BY <2>2 DEF Valid, ResourceValid
        <5>4. part \in {"ops", "fields", "read", "write", "required", "filterable",
                        "upsertKeys", "groupBy", "sumFields", "rowFilter", "softDelete"}
          BY DEF Resource
        <5>5. part \notin UNION {Decides(setting) : setting \in DOMAIN overlay["resources"][name]}
          BY <5>2
        <5>6. "fields" \in DOMAIN Override(Named[name], overlay["resources"][name])
          BY <5>1, <5>3
        <5>7. Resource(Override(Named[name], overlay["resources"][name]))[part]
                = Resource(Named[name])[part]
          BY <5>4, <5>5, <5>6, OverrideKeepsRest, Zenon
        <5> QED BY <3>2, <5>1, <5>7
      <4>2. CASE name \notin DOMAIN overlay["resources"]
        BY <3>1, <3>2, <4>2 DEF MergedResources
      <4> QED BY <4>1, <4>2
    <3> QED BY <2>3, <3>2, <3>3 DEF OverlayKeepsRest
  <2> QED BY <2>5, <2>6
<1> QED BY Invariance, <1>1, PTL
=============================================================================
