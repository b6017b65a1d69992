----------------------------- MODULE ConfigRefs -----------------------------
(***************************************************************************)
(* Configuration references of a QuarksJob: the ConfigMaps and Secrets its *)
(* pod template names, and how the errand controller compares two sets of  *)
(* them.                                                                   *)
(*                                                                         *)
(* A name is a record.  A versioned secret "foo-v3" is [kind |-> "secret", *)
(* base |-> "foo", version |-> 3]; version 0 is a name without a version   *)
(* suffix.  String prefixes, the only part of a name's spelling the code   *)
(* depends on, are the constant relation HasPrefix.                        *)
(***************************************************************************)
EXTENDS Naturals

CONSTANTS Configs,    \* names of the ConfigMaps and Secrets there can be
          HasPrefix   \* pairs <<a, b>> such that the names of the versions of a start with b

ConfigName == [kind : {"configMap", "secret"}, base : STRING, version : Nat]

ASSUME ConfigsAssumption ==
  /\ Configs \subseteq ConfigName
  /\ \A c \in Configs : c.kind = "configMap" => c.version = 0
  /\ \A c \in Configs : <<c.base, c.base>> \in HasPrefix

Refs == SUBSET Configs

\* vss.IsVersionedSecret, and vss.VersionFromName without an error.
IsVersioned(c) == c.kind = "secret" /\ c.version > 0

\* Version 1, whose creation the secret watch ignores.
IsInitialVersion(c) == IsVersioned(c) /\ c.version = 1

\* A secret of the old references whose NAME starts with the base of the new
\* one and whose version is higher.  The name, not the base, is compared.
IsLowerVersion(old, base, version) ==
  \E s \in old : /\ s.kind = "secret"
                 /\ <<s.base, base>> \in HasPrefix
                 /\ version < s.version

\* The references differ and no versioned secret among the new ones is a step
\* back.
HasConfigsChanged(old, new) ==
  /\ old # new
  /\ \A s \in new : IsVersioned(s) => ~IsLowerVersion(old, s.base, s.version)

\* Does a template with these references name c?  A versioned secret is found
\* under any of its versions.
IsReferencedBy(c, refs) ==
  IF IsVersioned(c)
  THEN \E r \in refs : r.kind = "secret" /\ r.base = c.base
  ELSE c \in refs
=============================================================================
