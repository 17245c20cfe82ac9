----------------------------- MODULE ValidChain -----------------------------
(***************************************************************************)
(* What the HEADERS sub-database promises a reader who opens a read        *)
(* transaction (spec.md 3.3, 4.3.3, 5), without dupIDs or keys: the set of *)
(* headers it knows, and for each height the header that is valid there.  *)
(* Headers are only ever added, except by a rebuild that erases all of     *)
(* them; a valid header is a known header of its height, and a height      *)
(* that has a valid header keeps one.  What a transaction changes appears  *)
(* at once, at its commit.  HeadersDB refines this module.                 *)
(***************************************************************************)
CONSTANTS Hashes, HeightOf

Heights == {HeightOf[x] : x \in Hashes}
None == "none"

VARIABLES
    known,   \* headers stored
    valid    \* valid[h]: the valid header at height h, or None

cvars == <<known, valid>>

CInit == known = {} /\ valid = [h \in Heights |-> None]

\* One commit: headers are added and valid headers chosen among the known
\* ones of each height.
CUpdate ==
    /\ \E K \in SUBSET Hashes : known \subseteq K /\ known' = K
    /\ valid' \in [Heights -> Hashes \cup {None}]
    /\ \A h \in Heights :
         /\ valid'[h] # None => valid'[h] \in known' /\ HeightOf[valid'[h]] = h
         /\ valid[h] # None => valid'[h] # None

\* A rebuild (nukeHeadersDB) erases every header.
CErase ==
    /\ known' = {}
    /\ valid' = [h \in Heights |-> None]

CSpec == CInit /\ [][CUpdate \/ CErase]_cvars

=============================================================================
