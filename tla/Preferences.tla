------------------------------ MODULE Preferences ------------------------------
(* PUT /preferences/me: the genres, platforms and tags one user prefers. *)
EXTENDS RowReplacement

CONSTANTS
    Kinds,      \* the tables, in the order they are written
    Existing,   \* [kind -> the ids there are]
    Bodies      \* the bodies of requests: [kind -> sequence of ids]

ASSUME PreferencesAssumption ==
    /\ Kinds \in Seq(DOMAIN Existing) /\ IsInjective(Kinds) /\ Kinds # <<>>
    /\ \A body \in Bodies : \A k \in ToSet(Kinds) : body[k] \in Seq(Nat)

\* a bulk_create for each kind
NewPreferences(body) ==
    [k \in DOMAIN Kinds |->
        [i \in DOMAIN body[Kinds[k]] |-> Row(Kinds[k], body[Kinds[k]][i], TRUE)]]

\* The serializer refuses an id that does not exist, and lets a repeated one through.
\* mutated form: the last kind is only added to
PutPreferencesAddingTags(p, body) ==
    /\ \A k \in ToSet(Kinds) : ToSet(body[k]) \subseteq Existing[k]
    /\ Start(p, Front(Kinds), NewPreferences(body), body)
PutPreferences(p, body) ==
    /\ \A k \in ToSet(Kinds) : ToSet(body[k]) \subseteq Existing[k]
    /\ Start(p, Kinds, NewPreferences(body), body)

PreferencesNext ==
    \/ \E p \in Writers, body \in Bodies : PutPreferences(p, body)
    \/ Statement

PreferencesSpec == RowReplacementInit /\ [][PreferencesNext]_rowVars
=============================================================================
