----------------------------- MODULE AccessRules -----------------------------
(***************************************************************************)
(* What a configuration lets a technical account do: CertDnAuthz.allow and *)
(* ACLChecker.  A configuration is a record                                *)
(*                                                                         *)
(*   [resources |-> resource name -> [ops, fields, read, write, required,  *)
(*                    filterable, upsertKeys, groupBy, sumFields : sets of *)
(*                    names, rowFilter, softDelete : BOOLEAN],             *)
(*    accounts  |-> certificate DN -> [tenant,                             *)
(*                    grants |-> resource name -> [ops, read, write]]]     *)
(*                                                                         *)
(* where "fields" are the fields a resource declares, "read" and "write"   *)
(* those with that flag (write: and neither primary key nor auto), groupBy *)
(* and sumFields what aggregates may name, and each part of a grant        *)
(* is a set of names or Unrestricted (absent from the YAML).               *)
(***************************************************************************)
CONSTANT Unrestricted

Operations == {"list", "get", "create", "update", "patch", "delete",
               "batch_create", "bulk_delete", "upsert", "aggregate"}

\* The columns of a resource; deleted_at stands for the soft-delete mark.
Fields == {"id", "tenant_id", "email", "status", "deleted_at"}

Limit(granted, base) == IF granted = Unrestricted THEN base ELSE granted \cap base

HasGrant(cfg, dn, res) ==
  /\ dn \in DOMAIN cfg.accounts
  /\ res \in DOMAIN cfg.accounts[dn].grants

Grant(cfg, dn, res) == cfg.accounts[dn].grants[res]

\* CertDnAuthz.allow, for a caller the middleware has identified.
Allow(cfg, dn, res) ==
  /\ res \in DOMAIN cfg.resources
  /\ HasGrant(cfg, dn, res)

\* _authorize, then require_operation: the code of the 403, or "" when admitted.
Denial(cfg, dn, res, op) ==
  IF ~Allow(cfg, dn, res) THEN "AUTHZ_DENIED"
  ELSE IF op \notin cfg.resources[res].ops THEN "OPERATION_DISABLED"
  ELSE IF op \notin Limit(Grant(cfg, dn, res).ops, Operations) THEN "OPERATION_DENIED"
  ELSE ""

ReadableFields(cfg, dn, res) ==
  IF HasGrant(cfg, dn, res)
    THEN Limit(Grant(cfg, dn, res).read, cfg.resources[res].read)
    ELSE {}

WritableFields(cfg, dn, res) ==
  IF HasGrant(cfg, dn, res)
    THEN Limit(Grant(cfg, dn, res).write, cfg.resources[res].write)
    ELSE {}
=============================================================================
