-------------------------- MODULE CatalogueProofs --------------------------
(***************************************************************************)
(* Theorems about the catalogue's parts, for any tables, lists of ids,     *)
(* lookups, orders, page sizes and numbers of workers: the IGDB client,    *)
(* the cached game entries, the list pages, and the parts together.        *)
(***************************************************************************)
EXTENDS MCCatalogue, NameKoProofs, ListsProofs

-----------------------------------------------------------------------------
(* The IGDB client: types *)

\* what Begin starts from, and where a walk may go
LEMMA WalkTypes ==
  ASSUME IgdbClientTypeOK
  PROVE  /\ table \in Seq(Rows) /\ Len(table) \in Nat
         /\ \A a, b \in DOMAIN table : table[a] = table[b] => a = b
         /\ got \in Seq(Rows) /\ Len(got) \in Nat
         /\ PageSize \in Nat /\ PageSize >= 1 /\ MaxPages \in Nat /\ MaxPages >= 1
         /\ sent \in Nat /\ moves \in Nat /\ deletions \in Nat
         /\ walk.pc \in {"post", "renew", "again", "wait"} <=> walk \in Walk
         /\ walk \in Ended <=> walk \notin Walk
         /\ walk \in Walk => /\ walk.offset \in Nat /\ walk.ids \in Seq(Rows)
                             /\ walk.second \in BOOLEAN
  BY IgdbClientAssumption DEF IgdbClientTypeOK, Walk, Ended, IsInjective

\* the table stays a sequence without repetition
LEMMA TableUpdated ==
  ASSUME IgdbClientTypeOK, NEW i \in DOMAIN table, RowUpdated(i)
  PROVE  /\ table' \in Seq(Rows) /\ Len(table') = Len(table)
         /\ table'[1] = table[i]
         /\ \A j \in 2..Len(table) : table'[j] = IF j - 1 < i THEN table[j - 1] ELSE table[j]
         /\ \A a, b \in DOMAIN table' : table'[a] = table'[b] => a = b
  <1>1. table \in Seq(Rows) /\ i \in 1..Len(table) /\ Len(table) \in Nat
        /\ \A a, b \in DOMAIN table : table[a] = table[b] => a = b
    BY WalkTypes
  <1>2. table' = <<table[i]>> \o RemoveAt(table, i)
    BY DEF RowUpdated
  <1>3. /\ table' \in Seq(Rows) /\ Len(table') = Len(table)
        /\ table'[1] = table[i]
        /\ \A j \in 2..Len(table) : table'[j] = IF j - 1 < i THEN table[j - 1] ELSE table[j]
    BY <1>1, <1>2, BroughtForward
  <1>4. DOMAIN table' = 1..Len(table) /\ DOMAIN table = 1..Len(table)
    BY <1>1, <1>3
  <1>5. ASSUME NEW a \in DOMAIN table', NEW b \in DOMAIN table', table'[a] = table'[b]
        PROVE  a = b
    <2> DEFINE from(j) == IF j = 1 THEN i ELSE IF j - 1 < i THEN j - 1 ELSE j
    <2>1. \A j \in DOMAIN table' : from(j) \in DOMAIN table /\ table'[j] = table[from(j)]
      BY <1>1, <1>3, <1>4
    <2>2. from(a) = from(b)
      BY <1>1, <1>5, <2>1
    <2> QED
      BY <1>1, <1>4, <2>2
  <1> QED
    BY <1>3, <1>5

LEMMA TableShortened ==
  ASSUME IgdbClientTypeOK, NEW i \in DOMAIN table, RowDeleted(i)
  PROVE  /\ table' \in Seq(Rows) /\ Len(table') = Len(table) - 1
         /\ \A j \in 1..Len(table) - 1 : table'[j] = IF j < i THEN table[j] ELSE table[j + 1]
         /\ \A a, b \in DOMAIN table' : table'[a] = table'[b] => a = b
  <1>1. table \in Seq(Rows) /\ i \in 1..Len(table) /\ Len(table) \in Nat
        /\ \A a, b \in DOMAIN table : table[a] = table[b] => a = b
    BY WalkTypes
  <1>2. table' = RemoveAt(table, i)
    BY DEF RowDeleted
  <1>3. /\ table' \in Seq(Rows) /\ Len(table') = Len(table) - 1
        /\ \A j \in 1..Len(table) - 1 : table'[j] = IF j < i THEN table[j] ELSE table[j + 1]
    BY <1>1, <1>2, TakenOut
  <1>4. DOMAIN table' = 1..Len(table) - 1 /\ DOMAIN table = 1..Len(table)
    BY <1>1, <1>3
  <1>5. ASSUME NEW a \in DOMAIN table', NEW b \in DOMAIN table', table'[a] = table'[b]
        PROVE  a = b
    <2> DEFINE from(j) == IF j < i THEN j ELSE j + 1
    <2>1. \A j \in DOMAIN table' : from(j) \in DOMAIN table /\ table'[j] = table[from(j)]
      BY <1>1, <1>3, <1>4
    <2>2. from(a) = from(b)
      BY <1>1, <1>5, <2>1
    <2> QED
      BY <1>1, <1>4, <2>2
  <1> QED
    BY <1>3, <1>5

LEMMA TableExtended ==
  ASSUME IgdbClientTypeOK, NEW r \in Rows, RowCreated(r)
  PROVE  /\ table' \in Seq(Rows) /\ Len(table') = Len(table) + 1
         /\ table'[1] = r
         /\ \A j \in 2..Len(table) + 1 : table'[j] = table[j - 1]
         /\ \A a, b \in DOMAIN table' : table'[a] = table'[b] => a = b
  <1>1. table \in Seq(Rows) /\ Len(table) \in Nat /\ DOMAIN table = 1..Len(table)
        /\ \A a, b \in DOMAIN table : table[a] = table[b] => a = b
    BY WalkTypes
  <1>2. table' = <<r>> \o table /\ \A j \in DOMAIN table : table[j] # r
    BY DEF RowCreated, ToSet
  <1>3. /\ table' \in Seq(Rows) /\ Len(table') = Len(table) + 1 /\ table'[1] = r
        /\ \A j \in 2..Len(table) + 1 : table'[j] = table[j - 1]
    BY <1>1, <1>2, Preceded
  <1>4. DOMAIN table' = 1..Len(table) + 1
    BY <1>1, <1>3
  <1>5. ASSUME NEW a \in DOMAIN table', NEW b \in DOMAIN table', table'[a] = table'[b]
        PROVE  a = b
    <2>1. \A j \in 2..Len(table) + 1 : j - 1 \in DOMAIN table
      BY <1>1
    <2>2. \A j \in 2..Len(table) + 1 : table'[j] = table[j - 1] /\ table'[j] # r
      BY <1>2, <1>3, <2>1
    <2>3. \A j \in DOMAIN table' : j = 1 \/ j \in 2..Len(table) + 1
      BY <1>1, <1>4
    <2>4. CASE a = 1
      BY <1>3, <1>5, <2>2, <2>3, <2>4
    <2>5. CASE a \in 2..Len(table) + 1
      <3>1. b \in 2..Len(table) + 1
        BY <1>3, <1>5, <2>2, <2>3, <2>5
      <3>2. table[a - 1] = table[b - 1]
        BY <1>5, <2>2, <2>5, <3>1
      <3>3. a - 1 = b - 1
        BY <1>1, <2>1, <2>5, <3>1, <3>2
      <3> QED
        BY <2>5, <3>1, <3>3, <1>1
    <2> QED
      BY <2>3, <2>4, <2>5
  <1> QED
    BY <1>3, <1>5

\* A page is the rows of the table from the offset on, PageSize at most; and a chunk
\* is rows without repetition.
LEMMA ResultTypes ==
  ASSUME IgdbClientTypeOK, walk \in Walk, NEW results \in Results(walk)
  PROVE  /\ results \in Seq(Rows)
         /\ Len(results) \in Nat
         /\ walk.op = "iterate" =>
               /\ Len(results) = IF walk.offset + PageSize <= Len(table) THEN PageSize
                                 ELSE IF walk.offset <= Len(table) THEN Len(table) - walk.offset
                                 ELSE 0
               /\ \A j \in 1..Len(results) : /\ walk.offset + j \in DOMAIN table
                                             /\ results[j] = table[walk.offset + j]
  <1>1. /\ table \in Seq(Rows) /\ Len(table) \in Nat /\ PageSize \in Nat /\ PageSize >= 1
        /\ walk.offset \in Nat /\ walk.ids \in Seq(Rows)
    BY WalkTypes
  <1>2. CASE walk.op = "iterate"
    <2> DEFINE first == walk.offset + 1
               final == IF walk.offset + PageSize < Len(table) THEN walk.offset + PageSize
                                                               ELSE Len(table)
    <2>1. results = SubSeq(table, first, final)
      BY <1>2 DEF Results
    <2>3. first \in Nat /\ first >= 1 /\ final \in Nat /\ final <= Len(table)
      BY <1>1
    <2> HIDE DEF first, final
    <2>4. /\ results \in Seq(Rows)
          /\ Len(results) = IF first <= final THEN final - first + 1 ELSE 0
          /\ \A j \in 1..Len(results) : results[j] = table[first + j - 1]
      BY <1>1, <2>1, <2>3
    <2>5. /\ first + 0 = walk.offset + 1
          /\ final = IF walk.offset + PageSize < Len(table) THEN walk.offset + PageSize ELSE Len(table)
      BY <1>1 DEF first, final
    <2>6. Len(results) = IF walk.offset + PageSize <= Len(table) THEN PageSize
                         ELSE IF walk.offset <= Len(table) THEN Len(table) - walk.offset
                         ELSE 0
      BY SMTT(30), <1>1, <2>3, <2>4, <2>5
    <2>7. ASSUME NEW j \in 1..Len(results)
          PROVE  walk.offset + j \in DOMAIN table /\ results[j] = table[walk.offset + j]
      <3>1. j \in Nat /\ j >= 1 /\ j <= final - first + 1
        BY <1>1, <2>3, <2>4
      <3>0. first = walk.offset + 1 /\ walk.offset \in Nat
        BY <1>1 DEF first
      <3>2. first + j - 1 = walk.offset + j
        BY <1>1, <3>0, <3>1
      <3>3. walk.offset + j \in 1..Len(table)
        <4>1. first <= final
          BY <2>3, <3>0, <3>1, <2>4
        <4> QED
          BY SMTT(30), <1>1, <2>3, <3>0, <3>1, <4>1
      <3> QED
        BY <1>1, <2>4, <3>2, <3>3
    <2> QED
      BY <2>4, <2>6, <2>7
  <1>3. CASE walk.op # "iterate"
    <2> DEFINE S == Chunk(walk.ids) \cap ToSet(table)
    <2>1. S \subseteq Rows /\ IsFiniteSet(S)
      <3>1. IsFiniteSet(ToSet(table)) /\ ToSet(table) \subseteq Rows
        BY <1>1, ElementsFinite
      <3>2. S \subseteq ToSet(table)
        OBVIOUS
      <3> QED
        BY <3>1, <3>2, FS_Subset
    <2>2. results \in SetToSeqs(S)
      BY <1>3 DEF Results
    <2> HIDE DEF S
    <2>3. Cardinality(S) \in Nat
      BY <2>1, FS_CardinalityType
    <2>4. results \in [1..Cardinality(S) -> S]
      BY <2>2 DEF SetToSeqs
    <2>5. results \in Seq(Rows)
      BY <2>1, <2>3, <2>4
    <2> QED
      BY <1>3, <2>5
  <1> QED
    BY <1>2, <1>3

\* the next page or chunk is one that can be asked for
LEMMA AfterTypes ==
  ASSUME IgdbClientTypeOK, walk \in Walk, NEW results \in Results(walk)
  PROVE  /\ After(walk, results) \in Walk \cup Ended
         /\ After(walk, results) \in Walk => /\ After(walk, results).pc = "post"
                                             /\ After(walk, results).op = walk.op
         /\ After(walk, results) \notin Ended /\ walk.op = "lookup" =>
              After(walk, results).ids # <<>>
  <1>1. /\ PageSize \in Nat /\ PageSize >= 1 /\ walk.offset \in Nat /\ walk.ids \in Seq(Rows)
        /\ walk.second \in BOOLEAN /\ walk.op \in {"iterate", "lookup"}
    BY WalkTypes DEF Walk
  <1>2. CASE walk.op = "iterate"
    <2>1. CASE Len(results) < PageSize
      <3>1. After(walk, results) = [pc |-> "done", op |-> walk.op]
        BY <1>2, <2>1 DEF After, Onward
      <3> QED
        BY <1>2, <3>1 DEF Walk, Ended
    <2>2. CASE ~ (Len(results) < PageSize)
      <3>1. After(walk, results) = [walk EXCEPT !.pc = "post", !.offset = @ + PageSize,
                                                !.second = FALSE]
        BY <1>2, <2>2 DEF After, Onward
      <3>2. PICK n \in Nat : n = walk.offset + PageSize
        BY <1>1
      <3>3. After(walk, results) = [pc |-> "post", op |-> "iterate", offset |-> n,
                                    ids |-> walk.ids, second |-> FALSE]
        BY <1>2, <3>1, <3>2 DEF Walk
      <3> QED
        BY <1>1, <1>2, <3>3 DEF Walk, Ended
    <2> QED
      BY <2>1, <2>2
  <1>3. CASE walk.op = "lookup"
    <2>1. CASE Len(walk.ids) <= PageSize
      <3>1. After(walk, results) = [pc |-> "done", op |-> walk.op]
        BY <1>3, <2>1 DEF After, Onward
      <3> QED
        BY <1>3, <3>1 DEF Walk, Ended
    <2>2. CASE ~ (Len(walk.ids) <= PageSize)
      <3> DEFINE rest == SubSeq(walk.ids, PageSize + 1, Len(walk.ids))
      <3>1. After(walk, results) = [walk EXCEPT !.pc = "post", !.ids = rest]
        BY <1>3, <2>2 DEF After, Onward
      <3>2. rest \in Seq(Rows) /\ Len(rest) >= 1
        BY <1>1, <2>2
      <3> HIDE DEF rest
      <3>3. rest # <<>>
        BY <3>2
      <3> QED
        BY <1>1, <1>3, <3>1, <3>2, <3>3 DEF Walk, Ended
    <2> QED
      BY <2>1, <2>2
  <1> QED
    BY <1>1, <1>2, <1>3

\* what a response does to the client's state
LEMMA AnswerTypes ==
  ASSUME IgdbClientTypeOK, walk \in Walk, Accept \/ Refuse
  PROVE  /\ walk' \in Walk \cup Ended
         /\ walk' \notin Ended /\ walk'.op = "lookup" => walk'.ids # <<>>
         /\ got' \in Seq(Rows)
         /\ sent' \in Nat
  <1>1. /\ walk.offset \in Nat /\ walk.ids \in Seq(Rows) /\ got \in Seq(Rows) /\ sent \in Nat
        /\ walk.second \in BOOLEAN /\ walk.op \in {"iterate", "lookup"} /\ walk \notin Ended
    BY WalkTypes DEF Walk
  <1>2. CASE Accept
    <2>1. PICK results \in Results(walk) : /\ got' = got \o results
                                           /\ walk' = After(walk, results)
                                           /\ sent' = 0
      BY <1>2 DEF Accept
    <2>2. results \in Seq(Rows)
      BY ResultTypes
    <2>3. got' \in Seq(Rows)
      BY <1>1, <2>1, <2>2, Joined
    <2>4. walk' \in Walk => walk'.op = walk.op
      BY <2>1, AfterTypes
    <2> QED
      BY <1>1, <2>1, <2>3, <2>4, AfterTypes
  <1>3. CASE Refuse
    <2>1. CASE walk' = [pc |-> "failed", op |-> walk.op] /\ sent' = 0
      BY <1>1, <1>3, <2>1 DEF Refuse, Ended
    <2>2. CASE /\ walk.op = "iterate" /\ sent' = sent + 1
               /\ walk' = [walk EXCEPT !.pc = "wait", !.second = TRUE]
      <3>1. got' = got /\ sent' \in Nat
        BY <1>1, <1>3, <2>2 DEF Refuse
      <3>2. walk' = [pc |-> "wait", op |-> "iterate", offset |-> walk.offset,
                     ids |-> walk.ids, second |-> TRUE]
        BY <2>2 DEF Walk
      <3>3. walk' \in Walk /\ walk'.op # "lookup"
        BY <1>1, <3>2 DEF Walk
      <3> QED
        BY <1>1, <3>1, <3>3
    <2> QED
      BY <1>3, <2>1, <2>2 DEF Refuse
  <1> QED
    BY <1>2, <1>3

LEMMA BeginTypes ==
  ASSUME IgdbClientTypeOK, NEW rec \in Walk, rec.op = "lookup" => rec.ids # <<>>, Begin(rec)
  PROVE  IgdbClientTypeOK'
  <1>1. ToSet(table) \subseteq Rows
    BY WalkTypes, ElementsFinite
  <1>2. <<>> \in Seq(Rows) /\ 0 \in Nat /\ 0 \in 0..MaxChanges
    BY IgdbClientAssumption
  <1> QED
    BY <1>1, <1>2 DEF Begin, IgdbClientTypeOK, Walk, Ended, AtRest

LEMMA ClientTypesStep ==
  IgdbClientTypeOK /\ [IgdbClientNext]_clientVars => IgdbClientTypeOK'
  <1> SUFFICES ASSUME IgdbClientTypeOK, [IgdbClientNext]_clientVars
               PROVE  IgdbClientTypeOK'
    OBVIOUS
  <1>0. /\ changes \in Nat /\ moves \in Nat /\ deletions \in Nat /\ MaxChanges \in Nat
        /\ tokens \in Nat /\ MaxTokens \in Nat
    BY IgdbClientAssumption DEF IgdbClientTypeOK
  <1>1. ASSUME NEW i \in DOMAIN table, RowUpdated(i)
        PROVE  IgdbClientTypeOK'
    <2>1. table' \in Seq(Rows) /\ IsInjective(table')
      BY <1>1, TableUpdated DEF IsInjective
    <2>2. table[i] \in Rows
      BY WalkTypes
    <2> QED
      BY <1>0, <1>1, <2>1, <2>2 DEF RowUpdated, IgdbClientTypeOK, AtRest
  <1>2. ASSUME NEW i \in DOMAIN table, RowDeleted(i)
        PROVE  IgdbClientTypeOK'
    <2>1. table' \in Seq(Rows) /\ IsInjective(table')
      BY <1>2, TableShortened DEF IsInjective
    <2>2. table[i] \in Rows
      BY WalkTypes
    <2> QED
      BY <1>0, <1>2, <2>1, <2>2 DEF RowDeleted, IgdbClientTypeOK, AtRest
  <1>3. ASSUME NEW r \in Rows, RowCreated(r)
        PROVE  IgdbClientTypeOK'
    <2>1. table' \in Seq(Rows) /\ IsInjective(table')
      BY <1>3, TableExtended DEF IsInjective
    <2>2. /\ changes' \in 0..MaxChanges /\ moves' \in Nat /\ deletions' \in Nat
          /\ moves' + deletions' <= changes'
      BY <1>0, <1>3 DEF RowCreated, IgdbClientTypeOK
    <2>3. touched' \subseteq Rows /\ UNCHANGED <<tokens, expired, walk, got, sent, atStart>>
      BY <1>3 DEF RowCreated, IgdbClientTypeOK
    <2> QED
      BY <2>1, <2>2, <2>3 DEF IgdbClientTypeOK, AtRest
  <1>4. CASE TokenExpires
    BY <1>4 DEF TokenExpires, IgdbClientTypeOK, AtRest
  <1>5. CASE BeginIteration
    <2> DEFINE rec == [pc |-> "post", op |-> "iterate", offset |-> 0, ids |-> <<>>,
                       second |-> FALSE]
    <2>1. rec \in Walk /\ rec.op # "lookup"
      BY DEF Walk
    <2> QED
      BY <1>5, <2>1, BeginTypes DEF BeginIteration
  <1>6. ASSUME NEW ids \in Wanted, BeginLookup(ids)
        PROVE  IgdbClientTypeOK'
    <2> DEFINE rec == [pc |-> "post", op |-> "lookup", offset |-> 0, ids |-> ids,
                       second |-> FALSE]
    <2>1. ids \in Seq(Rows) /\ ids # <<>> /\ Begin(rec)
      BY <1>6, IgdbClientAssumption DEF BeginLookup
    <2>2. rec \in Walk /\ rec.ids # <<>>
      BY <2>1 DEF Walk
    <2> QED
      BY <2>1, <2>2, BeginTypes
  <1>7. CASE Post
    <2>1. walk \in Walk /\ walk.op \in {"iterate", "lookup"} /\ walk \notin Ended
      BY <1>7, WalkTypes DEF Post, Walk
    <2>2. CASE Capped
      BY <1>7, <2>1, <2>2 DEF Post, IgdbClientTypeOK, Ended, AtRest
    <2>3. CASE ~Capped /\ expired
      <3>1. walk' = [walk EXCEPT !.pc = "renew"] /\ sent' = sent + 1
        BY <1>7, <2>3 DEF Post
      <3>2. walk' = [pc |-> "renew", op |-> walk.op, offset |-> walk.offset,
                     ids |-> walk.ids, second |-> walk.second]
        BY <2>1, <3>1 DEF Walk
      <3>3. walk' \in Walk /\ walk'.op = walk.op /\ walk'.ids = walk.ids
        BY <2>1, <3>2 DEF Walk
      <3>4. walk.op = "lookup" => walk.ids # <<>>
        BY <2>1 DEF IgdbClientTypeOK, AtRest
      <3>5. sent' \in Nat
        BY <3>1, WalkTypes
      <3> QED
        BY <1>7, <2>3, <3>3, <3>4, <3>5 DEF Post, IgdbClientTypeOK, AtRest
    <2>4. CASE ~Capped /\ ~expired
      <3>1. Accept \/ Refuse
        BY <1>7, <2>4 DEF Post
      <3> QED
        BY <1>7, <2>1, <3>1, AnswerTypes DEF Post, IgdbClientTypeOK, AtRest
    <2> QED
      BY <2>2, <2>3, <2>4
  <1>8. CASE Renew
    <2>1. walk \in Walk /\ walk.op \in {"iterate", "lookup"} /\ walk \notin Ended
      BY <1>8, WalkTypes DEF Renew, Walk
    <2>2. CASE walk' = [pc |-> "failed", op |-> walk.op] /\ UNCHANGED <<tokens, expired>>
      BY <1>8, <2>1, <2>2 DEF Renew, IgdbClientTypeOK, Ended, AtRest
    <2>3. CASE /\ tokens < MaxTokens
               /\ tokens' = tokens + 1
               /\ expired' = FALSE
               /\ walk' = [walk EXCEPT !.pc = "again"]
      <3>2. walk' = [pc |-> "again", op |-> walk.op, offset |-> walk.offset,
                     ids |-> walk.ids, second |-> walk.second]
        BY <2>1, <2>3 DEF Walk
      <3>3. walk' \in Walk /\ walk'.op = walk.op /\ walk'.ids = walk.ids
        BY <2>1, <3>2 DEF Walk
      <3>4. walk.op = "lookup" => walk.ids # <<>>
        BY <2>1 DEF IgdbClientTypeOK, AtRest
      <3>5. tokens' \in 1..MaxTokens
        BY <2>3, IgdbClientAssumption DEF IgdbClientTypeOK
      <3> QED
        BY <1>8, <2>3, <3>3, <3>4, <3>5 DEF Renew, IgdbClientTypeOK, AtRest
    <2> QED
      BY <1>8, <2>2, <2>3 DEF Renew
  <1>9. CASE PostAgain
    <2>1. walk \in Walk /\ walk.op \in {"iterate", "lookup"} /\ walk \notin Ended
      BY <1>9, WalkTypes DEF PostAgain, Walk
    <2>2. CASE expired
      BY <1>9, <2>1, <2>2 DEF PostAgain, IgdbClientTypeOK, Ended, AtRest
    <2>3. CASE ~expired
      <3>1. Accept \/ Refuse
        BY <1>9, <2>3 DEF PostAgain
      <3> QED
        BY <1>9, <2>1, <3>1, AnswerTypes DEF PostAgain, IgdbClientTypeOK, AtRest
    <2> QED
      BY <2>2, <2>3
  <1>10. CASE Wake
    <2>1. walk \in Walk /\ walk.op \in {"iterate", "lookup"} /\ walk \notin Ended
      BY <1>10, WalkTypes DEF Wake, Walk
    <2>2. walk' = [pc |-> "post", op |-> walk.op, offset |-> walk.offset,
                   ids |-> walk.ids, second |-> walk.second]
      BY <1>10, <2>1 DEF Walk, Wake
    <2>3. walk' \in Walk /\ walk'.op = walk.op /\ walk'.ids = walk.ids
      BY <2>1, <2>2 DEF Walk
    <2>4. walk.op = "lookup" => walk.ids # <<>>
      BY <2>1 DEF IgdbClientTypeOK, AtRest
    <2> QED
      BY <1>10, <2>3, <2>4 DEF Wake, IgdbClientTypeOK, AtRest
  <1>11. CASE UNCHANGED clientVars
    BY <1>11 DEF clientVars, IgdbClientTypeOK, AtRest
  <1> QED
    BY <1>1, <1>2, <1>3, <1>4, <1>5, <1>6, <1>7, <1>8, <1>9, <1>10, <1>11 DEF IgdbClientNext

LEMMA ClientTypesInit == IgdbClientInit => IgdbClientTypeOK
  <1> SUFFICES ASSUME IgdbClientInit
               PROVE  IgdbClientTypeOK
    OBVIOUS
  <1>1. table \in Seq(Rows) /\ IsInjective(table)
    BY IgdbClientAssumption DEF IgdbClientInit
  <1>2. walk \in Ended
    BY DEF IgdbClientInit, Ended
  <1>3. <<>> \in Seq(Rows) /\ 0 \in 0..MaxChanges /\ 1 \in 1..MaxTokens
    BY IgdbClientAssumption
  <1>4. changes = 0 /\ tokens = 1 /\ expired = FALSE /\ got = <<>> /\ sent = 0
        /\ atStart = {} /\ touched = {} /\ moves = 0 /\ deletions = 0
    BY DEF IgdbClientInit
  <1>5. moves \in Nat /\ deletions \in Nat /\ moves + deletions <= changes
    BY <1>4
  <1>6. atStart \subseteq Rows /\ touched \subseteq Rows
    BY <1>4
  <1> QED
    BY <1>1, <1>2, <1>3, <1>4, <1>5, <1>6 DEF IgdbClientTypeOK, AtRest

\* The client's state stays well typed, its table without repetition, for any tables,
\* lists of ids and page size.
THEOREM ClientTypes == IgdbClientSpec => []IgdbClientTypeOK
  BY ClientTypesInit, ClientTypesStep, PTL DEF IgdbClientSpec

-----------------------------------------------------------------------------
(* The IGDB client: requests and pages *)

LEMMA PagesInOffset ==
  ASSUME NEW k \in Nat, NEW size \in Nat, size >= 1
  PROVE  (k * size) \div size = k
  OBVIOUS

LEMMA RoomForAPage ==
  ASSUME NEW k \in Nat, NEW size \in Nat, size >= 1, NEW most \in Nat,
         ~ ((k * size) \div size >= most)
  PROVE  /\ k + 1 <= most
         /\ (k + 1) * size = k * size + size
         /\ (k + 1) * size <= most * size
         /\ k * size \in Nat /\ most * size \in Nat
  <1>1. k + 1 <= most
    BY PagesInOffset
  <1>2. (k + 1) * size = k * size + size
    OBVIOUS
  <1>3. PICK d \in Nat : most = (k + 1) + d
    BY <1>1
  <1>4. most * size = (k + 1) * size + d * size /\ d * size >= 0
    BY <1>3
  <1> QED
    BY <1>1, <1>2, <1>4

\* Requests for the page or chunk in hand: one more for each token that had expired and
\* for each 429 that was waited for.
SentBound(w) ==
    CASE w.pc = "post" -> IF w.second THEN 2 ELSE 0
      [] w.pc = "wait" -> 2
      [] OTHER -> IF w.second THEN 3 ELSE 1
SentInv ==
    /\ sent <= 3
    /\ walk \in Walk => sent <= SentBound(walk)
    /\ walk \in Walk /\ walk.pc = "wait" => walk.second
\* A walk has received exactly the rows before its offset, and asks for a page only below
\* the limit.
Limit == MaxPages * PageSize
PagesInv ==
    /\ walk.op = "iterate" => Len(got) <= Limit
    /\ walk \in Walk /\ walk.op = "iterate" =>
          /\ Len(got) = walk.offset
          /\ \E k \in 0..MaxPages : /\ walk.offset = k * PageSize
                                    /\ walk.pc # "post" => k < MaxPages
BudgetInv == IgdbClientTypeOK /\ SentInv /\ PagesInv

\* below the page limit there is room for a page
LEMMA BelowTheLimit ==
  ASSUME BudgetInv, walk \in Walk, walk.op = "iterate", walk.pc = "post" => ~Capped
  PROVE  /\ walk.offset + PageSize <= Limit /\ Limit \in Nat
         /\ \E k \in 0..MaxPages : walk.offset = k * PageSize /\ k < MaxPages
         /\ \E k \in 0..MaxPages : walk.offset + PageSize = k * PageSize
  <1>1. PICK k \in 0..MaxPages : walk.offset = k * PageSize /\ (walk.pc # "post" => k < MaxPages)
    BY DEF BudgetInv, PagesInv
  <1>2. PageSize \in Nat /\ PageSize >= 1 /\ MaxPages \in Nat /\ k \in Nat
    BY WalkTypes DEF BudgetInv
  <1>3. ~ ((k * PageSize) \div PageSize >= MaxPages)
    <2>1. CASE walk.pc = "post"
      BY <1>1, <2>1 DEF Capped
    <2>2. CASE walk.pc # "post"
      BY <1>1, <1>2, <2>2, PagesInOffset
    <2> QED
      BY <2>1, <2>2
  <1>4. /\ k + 1 <= MaxPages
        /\ (k + 1) * PageSize = k * PageSize + PageSize
        /\ (k + 1) * PageSize <= MaxPages * PageSize
        /\ MaxPages * PageSize \in Nat
    BY <1>2, <1>3, RoomForAPage
  <1>5. k + 1 \in 0..MaxPages /\ k < MaxPages
    BY <1>2, <1>4
  <1> QED
    BY <1>1, <1>4, <1>5 DEF Limit

LEMMA AnswerKeepsBudget ==
  ASSUME BudgetInv, walk \in Walk, walk.pc \in {"post", "again"},
         walk.pc = "post" => ~Capped, Accept \/ Refuse
  PROVE  SentInv' /\ PagesInv'
  <1>1. /\ got \in Seq(Rows) /\ Len(got) \in Nat /\ PageSize \in Nat /\ PageSize >= 1
        /\ walk.offset \in Nat /\ walk.second \in BOOLEAN /\ sent \in Nat /\ IgdbClientTypeOK
        /\ walk.op \in {"iterate", "lookup"} /\ walk.ids \in Seq(Rows)
    BY WalkTypes DEF BudgetInv, Walk
  <1>2. CASE Accept
    <2>1. PICK results \in Results(walk) : /\ got' = got \o results
                                           /\ walk' = After(walk, results)
                                           /\ sent' = 0
      BY <1>2 DEF Accept
    <2>2. SentInv'
      <3>1. walk' \in Walk => walk'.pc = "post" /\ walk'.second \in BOOLEAN
        BY <1>1, <2>1, AfterTypes DEF Walk
      <3> QED
        BY <2>1, <3>1 DEF SentInv, SentBound
    <2>3. walk' \in Walk => walk'.op = walk.op
      BY <1>1, <2>1, AfterTypes
    <2>4. CASE walk.op = "lookup"
      <3>1. walk'.op = "lookup"
        <4> DEFINE rest == SubSeq(walk.ids, PageSize + 1, Len(walk.ids))
        <4>1. \/ walk' = [pc |-> "done", op |-> walk.op]
              \/ walk' = [walk EXCEPT !.pc = "post", !.ids = rest]
          BY <2>1, <2>4 DEF After, Onward
        <4> HIDE DEF rest
        <4>2. CASE walk' = [pc |-> "done", op |-> walk.op]
          BY <2>4, <4>2
        <4>3. CASE walk' = [walk EXCEPT !.pc = "post", !.ids = rest]
          BY <2>4, <4>3 DEF Walk
        <4> QED
          BY <4>1, <4>2, <4>3
      <3> QED
        BY <2>2, <3>1 DEF PagesInv
    <2>5. CASE walk.op = "iterate"
      <3>1. /\ results \in Seq(Rows) /\ Len(results) \in Nat
            /\ Len(results) = IF walk.offset + PageSize <= Len(table) THEN PageSize
                              ELSE IF walk.offset <= Len(table) THEN Len(table) - walk.offset
                              ELSE 0
        BY <1>1, <2>5, ResultTypes
      <3>2. Len(got') = Len(got) + Len(results) /\ Len(got) = walk.offset
        BY <1>1, <2>1, <2>5, <3>1, Joined DEF BudgetInv, PagesInv
      <3>3. walk.offset + PageSize <= Limit /\ Limit \in Nat
        BY <2>5, BelowTheLimit
      <3>4. PICK k \in 0..MaxPages : walk.offset + PageSize = k * PageSize
        BY <2>5, BelowTheLimit
      <3>5. CASE Len(results) < PageSize
        <4>1. walk' = [pc |-> "done", op |-> walk.op]
          BY <2>1, <2>5, <3>5 DEF After, Onward
        <4>2. walk' \notin Walk
          BY <4>1 DEF Walk
        <4>3. Len(got') <= Limit
          BY <1>1, <3>1, <3>2, <3>3, <3>5
        <4> QED
          BY <2>2, <4>2, <4>3 DEF PagesInv, Limit
      <3>6. CASE ~ (Len(results) < PageSize)
        <4>1. walk' = [walk EXCEPT !.pc = "post", !.offset = @ + PageSize, !.second = FALSE]
          BY <2>1, <2>5, <3>6 DEF After, Onward
        <4>2. walk'.pc = "post" /\ walk'.offset = walk.offset + PageSize
          BY <4>1 DEF Walk
        <4>3. Len(results) = PageSize
          <5>1. Len(table) \in Nat
            BY <1>1, WalkTypes
          <5> QED
            BY <1>1, <3>1, <3>6, <5>1
        <4>4. Len(got') <= Limit /\ Len(got') = walk'.offset
          BY <1>1, <3>2, <3>3, <4>2, <4>3
        <4> QED
          BY <2>2, <3>4, <4>2, <4>4 DEF PagesInv, Limit
      <3> QED
        BY <3>5, <3>6
    <2> QED
      BY <1>1, <2>2, <2>4, <2>5
  <1>3. CASE Refuse
    <2>1. CASE walk' = [pc |-> "failed", op |-> walk.op] /\ sent' = 0
      <3>1. walk' \notin Walk /\ walk'.op = walk.op /\ got' = got
        BY <1>3, <2>1 DEF Walk, Refuse
      <3> QED
        BY <2>1, <3>1 DEF SentInv, PagesInv, BudgetInv, Limit
    <2>2. CASE /\ walk.op = "iterate" /\ ~walk.second /\ sent' = sent + 1
               /\ walk' = [walk EXCEPT !.pc = "wait", !.second = TRUE]
      <3>1. got' = got /\ walk'.pc = "wait" /\ walk'.second /\ walk'.offset = walk.offset
            /\ walk'.op = "iterate"
        BY <1>3, <2>2 DEF Walk, Refuse
      <3>2. sent <= 1
        BY <1>1, <2>2 DEF BudgetInv, SentInv, SentBound
      <3>3. SentInv'
        BY <1>1, <2>2, <3>1, <3>2 DEF SentInv, SentBound
      <3>4. \E k \in 0..MaxPages : walk.offset = k * PageSize /\ k < MaxPages
        BY <2>2, BelowTheLimit
      <3> QED
        BY <2>2, <3>1, <3>3, <3>4 DEF PagesInv, BudgetInv, Limit
    <2> QED
      BY <1>3, <2>1, <2>2 DEF Refuse
  <1> QED
    BY <1>2, <1>3

LEMMA BudgetStep ==
  BudgetInv /\ [IgdbClientNext]_clientVars => BudgetInv'
  <1> SUFFICES ASSUME BudgetInv, [IgdbClientNext]_clientVars
               PROVE  SentInv' /\ PagesInv'
    BY ClientTypesStep DEF BudgetInv
  <1>0. /\ IgdbClientTypeOK /\ PageSize \in Nat /\ PageSize >= 1 /\ MaxPages \in Nat
        /\ MaxPages >= 1 /\ sent \in Nat
        /\ walk.pc \in {"post", "renew", "again", "wait"} <=> walk \in Walk
        /\ walk \in Walk => walk.second \in BOOLEAN
    BY WalkTypes DEF BudgetInv
  <1>1. CASE UNCHANGED <<walk, got, sent>>
    BY <1>1 DEF BudgetInv, SentInv, PagesInv, Limit
  <1>2. ASSUME NEW rec \in Walk, Begin(rec), rec.pc = "post", rec.offset = 0, ~rec.second
        PROVE  SentInv' /\ PagesInv'
    <2>1. walk' = rec /\ got' = <<>> /\ sent' = 0
      BY <1>2 DEF Begin
    <2>2. Len(got') = 0 /\ Limit \in Nat /\ 0 \in 0..MaxPages /\ 0 * PageSize = 0
      BY <1>0, <2>1 DEF Limit
    <2> QED
      BY <1>2, <2>1, <2>2 DEF SentInv, SentBound, PagesInv, Limit
  <1>3. CASE BeginIteration
    <2> DEFINE rec == [pc |-> "post", op |-> "iterate", offset |-> 0, ids |-> <<>>,
                       second |-> FALSE]
    <2>1. rec \in Walk
      BY DEF Walk
    <2> QED
      BY <1>2, <1>3, <2>1 DEF BeginIteration
  <1>4. ASSUME NEW ids \in Wanted, BeginLookup(ids)
        PROVE  SentInv' /\ PagesInv'
    <2> DEFINE rec == [pc |-> "post", op |-> "lookup", offset |-> 0, ids |-> ids,
                       second |-> FALSE]
    <2>1. ids \in Seq(Rows) /\ Begin(rec)
      BY <1>4, IgdbClientAssumption DEF BeginLookup
    <2>2. rec \in Walk
      BY <2>1 DEF Walk
    <2> QED
      BY <1>2, <2>1, <2>2
  <1>5. CASE Post
    <2>1. walk \in Walk /\ walk.pc = "post"
      BY <1>0, <1>5 DEF Post
    <2>2. CASE Capped
      <3>1. walk' = [pc |-> "capped", op |-> walk.op] /\ got' = got /\ sent' = sent
        BY <1>5, <2>2 DEF Post
      <3>2. walk' \notin Walk /\ walk'.op = walk.op
        BY <3>1 DEF Walk
      <3> QED
        BY <3>1, <3>2 DEF BudgetInv, SentInv, PagesInv, Limit
    <2>3. CASE ~Capped /\ expired
      <3>1. walk' = [walk EXCEPT !.pc = "renew"] /\ sent' = sent + 1 /\ got' = got
        BY <1>5, <2>3 DEF Post
      <3>2. walk'.pc = "renew" /\ walk'.op = walk.op /\ walk'.offset = walk.offset
            /\ walk'.second = walk.second
        BY <2>1, <3>1 DEF Walk
      <3>3. SentInv'
        BY <1>0, <2>1, <3>1, <3>2 DEF BudgetInv, SentInv, SentBound
      <3>4. walk.op = "iterate" =>
              \E k \in 0..MaxPages : walk.offset = k * PageSize /\ k < MaxPages
        BY <2>1, <2>3, BelowTheLimit
      <3> QED
        BY <2>1, <3>1, <3>2, <3>3, <3>4 DEF BudgetInv, PagesInv, Limit
    <2>4. CASE ~Capped /\ ~expired
      <3>1. Accept \/ Refuse
        BY <1>5, <2>4 DEF Post
      <3> QED
        BY <2>1, <2>4, <3>1, AnswerKeepsBudget
    <2> QED
      BY <2>2, <2>3, <2>4
  <1>6. CASE Renew
    <2>1. walk \in Walk /\ walk.pc = "renew" /\ got' = got /\ sent' = sent
      BY <1>0, <1>6 DEF Renew
    <2>2. CASE walk' = [pc |-> "failed", op |-> walk.op]
      <3>1. walk' \notin Walk /\ walk'.op = walk.op
        BY <2>2 DEF Walk
      <3> QED
        BY <2>1, <3>1 DEF BudgetInv, SentInv, PagesInv, Limit
    <2>3. CASE walk' = [walk EXCEPT !.pc = "again"]
      <3>1. walk'.pc = "again" /\ walk'.op = walk.op /\ walk'.offset = walk.offset
            /\ walk'.second = walk.second
        BY <2>1, <2>3 DEF Walk
      <3> QED
        BY <2>1, <3>1 DEF BudgetInv, SentInv, SentBound, PagesInv, Limit
    <2> QED
      BY <1>6, <2>2, <2>3 DEF Renew
  <1>7. CASE PostAgain
    <2>1. walk \in Walk /\ walk.pc = "again"
      BY <1>0, <1>7 DEF PostAgain
    <2>2. CASE expired
      <3>1. walk' = [pc |-> "failed", op |-> walk.op] /\ got' = got /\ sent' = 0
        BY <1>7, <2>2 DEF PostAgain
      <3>2. walk' \notin Walk /\ walk'.op = walk.op
        BY <3>1 DEF Walk
      <3> QED
        BY <3>1, <3>2 DEF BudgetInv, SentInv, PagesInv, Limit
    <2>3. CASE ~expired
      <3>1. Accept \/ Refuse
        BY <1>7, <2>3 DEF PostAgain
      <3> QED
        BY <2>1, <3>1, AnswerKeepsBudget
    <2> QED
      BY <2>2, <2>3
  <1>8. CASE Wake
    <2>1. walk \in Walk /\ walk.pc = "wait" /\ got' = got /\ sent' = sent
          /\ walk' = [walk EXCEPT !.pc = "post"]
      BY <1>0, <1>8 DEF Wake
    <2>2. walk'.pc = "post" /\ walk'.op = walk.op /\ walk'.offset = walk.offset
          /\ walk'.second = walk.second
      BY <2>1 DEF Walk
    <2> QED
      BY <2>1, <2>2 DEF BudgetInv, SentInv, SentBound, PagesInv, Limit
  <1>9. CASE TokenExpires \/ UNCHANGED clientVars
    BY <1>1, <1>9 DEF TokenExpires, clientVars
  <1>10. ASSUME NEW i \in DOMAIN table, RowUpdated(i) \/ RowDeleted(i)
         PROVE  UNCHANGED <<walk, got, sent>>
    BY <1>10 DEF RowUpdated, RowDeleted
  <1>11. ASSUME NEW r \in Rows, RowCreated(r)
         PROVE  UNCHANGED <<walk, got, sent>>
    BY <1>11 DEF RowCreated
  <1> QED
    BY <1>1, <1>3, <1>4, <1>5, <1>6, <1>7, <1>8, <1>9, <1>10, <1>11 DEF IgdbClientNext

\* However tokens expire and IGDB refuses, a page costs four requests at most, and an
\* iteration receives no more than MaxPages pages.
THEOREM RequestsAreBounded == IgdbClientSpec => []RequestBudget
  <1>1. IgdbClientInit => BudgetInv
    <2> SUFFICES ASSUME IgdbClientInit
                 PROVE  SentInv /\ PagesInv
      BY ClientTypesInit DEF BudgetInv
    <2>1. walk \notin Walk /\ sent = 0 /\ Len(got) = 0
      BY DEF IgdbClientInit, Walk
    <2>2. Limit \in Nat
      BY IgdbClientAssumption DEF Limit
    <2> QED
      BY <2>1, <2>2 DEF SentInv, PagesInv
  <1>2. BudgetInv => RequestBudget
    BY DEF BudgetInv, SentInv, PagesInv, RequestBudget, Limit
  <1> QED
    BY <1>1, <1>2, BudgetStep, PTL DEF IgdbClientSpec

-----------------------------------------------------------------------------
(* The IGDB client: a walk through a table that changes *)

\* rows that nobody touched, which the walk has passed without receiving them
Missed == {r \in atStart \ touched :
              /\ r \notin ToSet(got)
              /\ \E j \in DOMAIN table : j <= walk.offset /\ table[j] = r}
\* rows received that lie before the walk again
Again == {r \in ToSet(got) : \E j \in DOMAIN table : j > walk.offset /\ table[j] = r}

FollowInv ==
    /\ BudgetInv
    /\ IsFiniteSet(atStart)
    /\ atStart \ touched \subseteq ToSet(table)
    /\ WalkFollowsTable
    /\ walk \in Walk /\ walk.op = "iterate" =>
          /\ Cardinality(Missed) <= deletions
          /\ Len(got) + Cardinality(Again) <= Cardinality(ToSet(got)) + moves

LEMMA FollowTypes ==
  ASSUME FollowInv
  PROVE  /\ IgdbClientTypeOK
         /\ table \in Seq(Rows) /\ Len(table) \in Nat /\ DOMAIN table = 1..Len(table)
         /\ \A a, b \in DOMAIN table : table[a] = table[b] => a = b
         /\ got \in Seq(Rows) /\ Len(got) \in Nat
         /\ IsFiniteSet(ToSet(got)) /\ Cardinality(ToSet(got)) \in Nat
         /\ moves \in Nat /\ deletions \in Nat
         /\ IsFiniteSet(Missed) /\ Cardinality(Missed) \in Nat
         /\ IsFiniteSet(Again) /\ Cardinality(Again) \in Nat
         /\ walk \in Walk => walk.offset \in Nat
         /\ walk \in Walk /\ walk.op = "iterate" => Len(got) = walk.offset
  <1>1. /\ IgdbClientTypeOK /\ table \in Seq(Rows) /\ Len(table) \in Nat
        /\ \A a, b \in DOMAIN table : table[a] = table[b] => a = b
        /\ got \in Seq(Rows) /\ Len(got) \in Nat /\ moves \in Nat /\ deletions \in Nat
        /\ walk \in Walk => walk.offset \in Nat
    BY WalkTypes DEF FollowInv, BudgetInv
  <1>2. DOMAIN table = 1..Len(table)
    BY <1>1
  <1>3. IsFiniteSet(ToSet(got)) /\ Cardinality(ToSet(got)) \in Nat
    BY <1>1, ElementsFinite
  <1>4. IsFiniteSet(Missed) /\ Cardinality(Missed) \in Nat
    BY FewerElements DEF Missed, FollowInv
  <1>5. IsFiniteSet(Again) /\ Cardinality(Again) \in Nat
    BY <1>3, FewerElements DEF Again
  <1>6. walk \in Walk /\ walk.op = "iterate" => Len(got) = walk.offset
    BY DEF FollowInv, BudgetInv, PagesInv
  <1> QED
    BY <1>1, <1>2, <1>3, <1>4, <1>5, <1>6

\* nothing is before a walk again that has received nothing
LEMMA NothingYet ==
  ASSUME FollowInv, walk \in Walk, walk.op = "iterate", walk.offset = 0
  PROVE  ToSet(got) = {}
  <1>1. got \in Seq(Rows) /\ Len(got) = 0
    BY FollowTypes
  <1> QED
    BY <1>1 DEF ToSet

\* A step of IGDB: what is touched grows, and the walk is where it was.
LEMMA TableStep ==
  ASSUME FollowInv, BudgetInv', UNCHANGED <<walk, got, atStart>>,
         touched \subseteq touched',
         atStart \ touched' \subseteq ToSet(table'),
         NEW d \in 0..1, deletions' = deletions + d, moves' = moves + (1 - d),
         walk \in Walk /\ walk.op = "iterate" =>
            /\ d = 0 => Missed' \subseteq Missed
            /\ d = 1 => \E x : Missed' \subseteq Missed \cup {x}
            /\ d = 1 => Again' \subseteq Again
            /\ d = 0 => \E x : Again' \subseteq Again \cup {x}
  PROVE  FollowInv'
  <1>1. /\ moves \in Nat /\ deletions \in Nat /\ Len(got) \in Nat
        /\ Cardinality(ToSet(got)) \in Nat
        /\ IsFiniteSet(Missed) /\ Cardinality(Missed) \in Nat
        /\ IsFiniteSet(Again) /\ Cardinality(Again) \in Nat
    BY FollowTypes
  <1>2. moves' \in Nat /\ deletions' \in Nat /\ moves' >= moves /\ deletions' >= deletions
    BY <1>1
  <1>3. ToSet(got') = ToSet(got) /\ IsFiniteSet(atStart')
    BY DEF FollowInv
  <1>4. RepeatsBounded'
    BY <1>1, <1>2, <1>3 DEF FollowInv, WalkFollowsTable, RepeatsBounded
  <1>5. UntouchedNotSkipped'
    <2> DEFINE S == (atStart \ touched) \ ToSet(got)
               T == (atStart \ touched') \ ToSet(got)
    <2>1. IsFiniteSet(S) /\ T \subseteq S
      <3>1. S \subseteq atStart /\ IsFiniteSet(atStart)
        BY DEF FollowInv
      <3> QED
        BY <3>1, FewerElements
    <2>2. Cardinality(T) <= Cardinality(S) /\ Cardinality(T) \in Nat /\ Cardinality(S) \in Nat
      BY <2>1, FewerElements
    <2>3. walk.pc = "done" /\ walk.op = "iterate" => Cardinality(S) <= deletions
      BY DEF FollowInv, WalkFollowsTable, UntouchedNotSkipped
    <2>4. walk.pc = "done" /\ walk.op = "iterate" => Cardinality(T) <= deletions'
      BY <1>1, <1>2, <2>2, <2>3
    <2> QED
      BY <1>3, <2>4 DEF UntouchedNotSkipped
  <1>6. ASSUME walk \in Walk, walk.op = "iterate"
        PROVE  /\ Cardinality(Missed') <= deletions'
               /\ Len(got) + Cardinality(Again') <= Cardinality(ToSet(got)) + moves'
    <2>0. /\ Cardinality(Missed) <= deletions
          /\ Len(got) + Cardinality(Again) <= Cardinality(ToSet(got)) + moves
      BY <1>6 DEF FollowInv
    <2>1. CASE d = 0
      <3>1. Cardinality(Missed') <= Cardinality(Missed) /\ Cardinality(Missed') \in Nat
        BY <1>1, <1>6, <2>1, FewerElements
      <3>2. Cardinality(Again') <= Cardinality(Again) + 1 /\ Cardinality(Again') \in Nat
        <4>1. PICK x : Again' \subseteq Again \cup {x}
          BY <1>6, <2>1
        <4> QED
          BY <1>1, <4>1, OneElementMore
      <3>3. deletions' = deletions /\ moves' = moves + 1
        BY <1>1, <2>1
      <3> QED
        BY <1>1, <2>0, <3>1, <3>2, <3>3
    <2>2. CASE d = 1
      <3>1. Cardinality(Missed') <= Cardinality(Missed) + 1 /\ Cardinality(Missed') \in Nat
        <4>1. PICK x : Missed' \subseteq Missed \cup {x}
          BY <1>6, <2>2
        <4> QED
          BY <1>1, <4>1, OneElementMore
      <3>2. Cardinality(Again') <= Cardinality(Again) /\ Cardinality(Again') \in Nat
        BY <1>1, <1>6, <2>2, FewerElements
      <3>3. deletions' = deletions + 1 /\ moves' = moves
        BY <1>1, <2>2
      <3> QED
        BY <1>1, <2>0, <3>1, <3>2, <3>3
    <2> QED
      BY <2>1, <2>2
  <1> QED
    BY <1>3, <1>4, <1>5, <1>6 DEF FollowInv, WalkFollowsTable

LEMMA UpdateFollows ==
  ASSUME FollowInv, BudgetInv', NEW i \in DOMAIN table, RowUpdated(i)
  PROVE  FollowInv'
  <1>1. /\ IgdbClientTypeOK /\ Len(table) \in Nat /\ DOMAIN table = 1..Len(table)
        /\ walk \in Walk => walk.offset \in Nat
    BY FollowTypes
  <1>2. /\ table' \in Seq(Rows) /\ Len(table') = Len(table)
        /\ table'[1] = table[i]
        /\ \A j \in 2..Len(table) : table'[j] = IF j - 1 < i THEN table[j - 1] ELSE table[j]
    BY <1>1, TableUpdated
  <1>3. DOMAIN table' = 1..Len(table)
    BY <1>2
  <1>4. /\ UNCHANGED <<walk, got, atStart>> /\ touched' = touched \cup {table[i]}
        /\ deletions' = deletions + 0 /\ moves' = moves + (1 - 0)
    BY FollowTypes DEF RowUpdated
  <1>5. atStart \ touched' \subseteq ToSet(table')
    <2> SUFFICES ASSUME NEW r \in atStart \ touched'
                 PROVE  r \in ToSet(table')
      OBVIOUS
    <2>1. r \in ToSet(table) /\ r # table[i]
      BY <1>4 DEF FollowInv
    <2>2. PICK j \in DOMAIN table : table[j] = r /\ j # i
      BY <2>1 DEF ToSet
    <2>3. \E k \in DOMAIN table' : table'[k] = r
      <3>1. CASE j < i
        <4>1. j + 1 \in 2..Len(table) /\ (j + 1) - 1 < i /\ (j + 1) - 1 = j
          BY <1>1, <3>1
        <4> QED
          BY <1>2, <1>3, <2>2, <4>1
      <3>2. CASE j > i
        <4>1. j \in 2..Len(table) /\ ~ (j - 1 < i)
          BY <1>1, <3>2
        <4> QED
          BY <1>2, <1>3, <2>2, <4>1
      <3> QED
        BY <1>1, <2>2, <3>1, <3>2
    <2> QED
      BY <2>3 DEF ToSet
  <1>6. ASSUME walk \in Walk, walk.op = "iterate"
        PROVE  Missed' \subseteq Missed /\ \E x : Again' \subseteq Again \cup {x}
    <2>0. walk.offset \in Nat /\ walk'.offset = walk.offset /\ ToSet(got') = ToSet(got)
      BY <1>1, <1>4, <1>6
    <2>1. ASSUME NEW r \in Missed'
          PROVE  r \in Missed
      <3>1. /\ r \in atStart /\ r \notin touched /\ r # table[i] /\ r \notin ToSet(got)
            /\ \E k \in DOMAIN table' : k <= walk.offset /\ table'[k] = r
        BY <1>4, <2>0, <2>1 DEF Missed
      <3>2. PICK k \in DOMAIN table' : k <= walk.offset /\ table'[k] = r
        BY <3>1
      <3>3. k \in 2..Len(table)
        BY <1>1, <1>2, <1>3, <3>1, <3>2
      <3>4. \E j \in DOMAIN table : j <= walk.offset /\ table[j] = r
        <4>1. k \in DOMAIN table /\ k - 1 \in DOMAIN table /\ k - 1 <= walk.offset
          BY <1>1, <2>0, <3>2, <3>3
        <4> QED
          BY <1>2, <3>2, <3>3, <4>1
      <3> QED
        BY <3>1, <3>4 DEF Missed
    <2>2. ASSUME NEW r \in Again'
          PROVE  r \in Again \cup {table[walk.offset]}
      <3>1. /\ r \in ToSet(got)
            /\ \E k \in DOMAIN table' : k > walk.offset /\ table'[k] = r
        BY <2>0, <2>2 DEF Again
      <3>2. PICK k \in DOMAIN table' : k > walk.offset /\ table'[k] = r
        BY <3>1
      <3>3. k \in 2..Len(table)
        <4>1. k # 1
          BY <1>6, <2>0, <3>1, <3>2, NothingYet
        <4> QED
          BY <1>1, <1>3, <4>1
      <3>4. r = table[walk.offset] \/ \E j \in DOMAIN table : j > walk.offset /\ table[j] = r
        <4>1. k \in DOMAIN table /\ k - 1 \in DOMAIN table
              /\ (k - 1 > walk.offset \/ k - 1 = walk.offset)
          BY <1>1, <2>0, <3>2, <3>3
        <4> QED
          BY <1>2, <3>2, <3>3, <4>1
      <3> QED
        BY <3>1, <3>4 DEF Again
    <2> QED
      BY <2>1, <2>2
  <1> QED
    <2>1. 0 \in 0..1
      OBVIOUS
    <2> QED
      BY <1>4, <1>5, <1>6, <2>1, TableStep

LEMMA CreationFollows ==
  ASSUME FollowInv, BudgetInv', NEW n \in Rows, RowCreated(n)
  PROVE  FollowInv'
  <1>1. /\ IgdbClientTypeOK /\ Len(table) \in Nat /\ DOMAIN table = 1..Len(table)
        /\ walk \in Walk => walk.offset \in Nat
    BY FollowTypes
  <1>2. /\ table' \in Seq(Rows) /\ Len(table') = Len(table) + 1
        /\ table'[1] = n
        /\ \A j \in 2..Len(table) + 1 : table'[j] = table[j - 1]
    BY <1>1, TableExtended
  <1>3. DOMAIN table' = 1..Len(table) + 1
    BY <1>1, <1>2
  <1>4. /\ UNCHANGED <<walk, got, atStart>> /\ touched' = touched \cup {n}
        /\ deletions' = deletions + 0 /\ moves' = moves + (1 - 0)
    BY FollowTypes DEF RowCreated
  <1>5. atStart \ touched' \subseteq ToSet(table')
    <2> SUFFICES ASSUME NEW r \in atStart \ touched'
                 PROVE  r \in ToSet(table')
      OBVIOUS
    <2>1. PICK j \in DOMAIN table : table[j] = r
      BY <1>4 DEF FollowInv, ToSet
    <2>2. j + 1 \in 2..Len(table) + 1 /\ (j + 1) - 1 = j /\ j + 1 \in DOMAIN table'
      BY <1>1, <1>3
    <2> QED
      BY <1>2, <2>1, <2>2 DEF ToSet
  <1>6. ASSUME walk \in Walk, walk.op = "iterate"
        PROVE  Missed' \subseteq Missed /\ \E x : Again' \subseteq Again \cup {x}
    <2>0. walk.offset \in Nat /\ walk'.offset = walk.offset /\ ToSet(got') = ToSet(got)
      BY <1>1, <1>4, <1>6
    <2>1. ASSUME NEW r \in Missed'
          PROVE  r \in Missed
      <3>1. /\ r \in atStart /\ r \notin touched /\ r # n /\ r \notin ToSet(got)
            /\ \E k \in DOMAIN table' : k <= walk.offset /\ table'[k] = r
        BY <1>4, <2>0, <2>1 DEF Missed
      <3>2. PICK k \in DOMAIN table' : k <= walk.offset /\ table'[k] = r
        BY <3>1
      <3>3. k \in 2..Len(table) + 1
        BY <1>1, <1>2, <1>3, <3>1, <3>2
      <3>4. k - 1 \in DOMAIN table /\ k - 1 <= walk.offset /\ table[k - 1] = r
        BY <1>1, <1>2, <2>0, <3>2, <3>3
      <3> QED
        BY <3>1, <3>4 DEF Missed
    <2>2. ASSUME NEW r \in Again'
          PROVE  r \in Again \cup {table[walk.offset]}
      <3>1. /\ r \in ToSet(got)
            /\ \E k \in DOMAIN table' : k > walk.offset /\ table'[k] = r
        BY <2>0, <2>2 DEF Again
      <3>2. PICK k \in DOMAIN table' : k > walk.offset /\ table'[k] = r
        BY <3>1
      <3>3. k \in 2..Len(table) + 1
        <4>1. k # 1
          BY <1>6, <2>0, <3>1, <3>2, NothingYet
        <4> QED
          BY <1>1, <1>3, <4>1
      <3>4. k - 1 \in DOMAIN table /\ table[k - 1] = r
            /\ (k - 1 > walk.offset \/ k - 1 = walk.offset)
        BY <1>1, <1>2, <2>0, <3>2, <3>3
      <3> QED
        BY <3>1, <3>4 DEF Again
    <2> QED
      BY <2>1, <2>2
  <1> QED
    <2>1. 0 \in 0..1
      OBVIOUS
    <2> QED
      BY <1>4, <1>5, <1>6, <2>1, TableStep

LEMMA DeletionFollows ==
  ASSUME FollowInv, BudgetInv', NEW i \in DOMAIN table, RowDeleted(i)
  PROVE  FollowInv'
  <1>1. /\ IgdbClientTypeOK /\ Len(table) \in Nat /\ DOMAIN table = 1..Len(table)
        /\ walk \in Walk => walk.offset \in Nat
    BY FollowTypes
  <1>2. /\ table' \in Seq(Rows) /\ Len(table') = Len(table) - 1
        /\ \A j \in 1..Len(table) - 1 : table'[j] = IF j < i THEN table[j] ELSE table[j + 1]
    BY <1>1, TableShortened
  <1>3. DOMAIN table' = 1..Len(table) - 1
    BY <1>1, <1>2
  <1>4. /\ UNCHANGED <<walk, got, atStart>> /\ touched' = touched \cup {table[i]}
        /\ deletions' = deletions + 1 /\ moves' = moves + (1 - 1)
    BY FollowTypes DEF RowDeleted
  <1>5. atStart \ touched' \subseteq ToSet(table')
    <2> SUFFICES ASSUME NEW r \in atStart \ touched'
                 PROVE  r \in ToSet(table')
      OBVIOUS
    <2>1. r \in ToSet(table) /\ r # table[i]
      BY <1>4 DEF FollowInv
    <2>2. PICK j \in DOMAIN table : table[j] = r /\ j # i
      BY <2>1 DEF ToSet
    <2>3. \E k \in DOMAIN table' : table'[k] = r
      <3>1. CASE j < i
        <4>1. j \in 1..Len(table) - 1
          BY <1>1, <3>1
        <4> QED
          BY <1>2, <1>3, <2>2, <3>1, <4>1
      <3>2. CASE j > i
        <4>1. j - 1 \in 1..Len(table) - 1 /\ ~ (j - 1 < i) /\ (j - 1) + 1 = j
          BY <1>1, <3>2
        <4> QED
          BY <1>2, <1>3, <2>2, <4>1
      <3> QED
        BY <1>1, <2>2, <3>1, <3>2
    <2> QED
      BY <2>3 DEF ToSet
  <1>6. ASSUME walk \in Walk, walk.op = "iterate"
        PROVE  Again' \subseteq Again /\ \E x : Missed' \subseteq Missed \cup {x}
    <2>0. walk.offset \in Nat /\ walk'.offset = walk.offset /\ ToSet(got') = ToSet(got)
      BY <1>1, <1>4, <1>6
    <2>1. ASSUME NEW r \in Missed'
          PROVE  r \in Missed \cup {table[walk.offset + 1]}
      <3>1. /\ r \in atStart /\ r \notin touched /\ r \notin ToSet(got)
            /\ \E k \in DOMAIN table' : k <= walk.offset /\ table'[k] = r
        BY <1>4, <2>0, <2>1 DEF Missed
      <3>2. PICK k \in DOMAIN table' : k <= walk.offset /\ table'[k] = r
        BY <3>1
      <3>3. /\ k \in DOMAIN table /\ k + 1 \in DOMAIN table /\ (table[k] = r \/ table[k + 1] = r)
            /\ k + 1 <= walk.offset \/ k + 1 = walk.offset + 1
        BY <1>1, <1>2, <1>3, <2>0, <3>2
      <3>4. r = table[walk.offset + 1] \/ \E j \in DOMAIN table : j <= walk.offset /\ table[j] = r
        BY <3>2, <3>3
      <3> QED
        BY <3>1, <3>4 DEF Missed
    <2>2. ASSUME NEW r \in Again'
          PROVE  r \in Again
      <3>1. /\ r \in ToSet(got)
            /\ \E k \in DOMAIN table' : k > walk.offset /\ table'[k] = r
        BY <2>0, <2>2 DEF Again
      <3>2. PICK k \in DOMAIN table' : k > walk.offset /\ table'[k] = r
        BY <3>1
      <3>3. /\ k \in DOMAIN table /\ k + 1 \in DOMAIN table /\ (table[k] = r \/ table[k + 1] = r)
            /\ k + 1 > walk.offset
        BY <1>1, <1>2, <1>3, <2>0, <3>2
      <3> QED
        BY <3>1, <3>2, <3>3 DEF Again
    <2> QED
      BY <2>1, <2>2
  <1> QED
    <2>1. 1 \in 0..1
      OBVIOUS
    <2> QED
      BY <1>4, <1>5, <1>6, <2>1, TableStep

\* A walk that is where it was, or that ends without having gone through the table,
\* owes nothing new.
LEMMA StandStillFollows ==
  ASSUME FollowInv, BudgetInv',
         UNCHANGED <<table, got, atStart, touched, moves, deletions>>,
         walk'.op = walk.op,
         walk'.pc # "done" \/ walk'.op # "iterate" \/ walk' = walk,
         walk' \in Walk => walk \in Walk /\ walk'.offset = walk.offset
  PROVE  FollowInv'
  <1>1. ToSet(got') = ToSet(got) /\ IsFiniteSet(atStart')
        /\ atStart' \ touched' \subseteq ToSet(table')
    BY DEF FollowInv, ToSet
  <1>2. RepeatsBounded'
    BY <1>1 DEF FollowInv, WalkFollowsTable, RepeatsBounded
  <1>3. UntouchedNotSkipped'
    BY <1>1 DEF FollowInv, WalkFollowsTable, UntouchedNotSkipped
  <1>4. ASSUME walk' \in Walk, walk'.op = "iterate"
        PROVE  /\ Cardinality(Missed') <= deletions'
               /\ Len(got') + Cardinality(Again') <= Cardinality(ToSet(got')) + moves'
    <2>1. walk \in Walk /\ walk.op = "iterate" /\ walk'.offset = walk.offset
      BY <1>4
    <2>2. Missed' = Missed /\ Again' = Again
      BY <1>1, <2>1 DEF Missed, Again
    <2>3. /\ Cardinality(Missed) <= deletions
          /\ Len(got) + Cardinality(Again) <= Cardinality(ToSet(got)) + moves
      BY <2>1 DEF FollowInv
    <2> QED
      BY <1>1, <2>2, <2>3
  <1> QED
    BY <1>1, <1>2, <1>3, <1>4 DEF FollowInv, WalkFollowsTable

\* A page: what it repeats was before the walk again, and what the table has up to its
\* end has been received or had been passed.
LEMMA PageFollows ==
  ASSUME FollowInv, BudgetInv', walk \in Walk, walk.op = "iterate", Accept,
         UNCHANGED <<table, atStart, touched, moves, deletions>>
  PROVE  FollowInv'
  <1>1. /\ IgdbClientTypeOK /\ table \in Seq(Rows) /\ Len(table) \in Nat
        /\ DOMAIN table = 1..Len(table)
        /\ \A a, b \in DOMAIN table : table[a] = table[b] => a = b
        /\ got \in Seq(Rows) /\ Len(got) \in Nat
        /\ IsFiniteSet(ToSet(got)) /\ Cardinality(ToSet(got)) \in Nat
        /\ moves \in Nat /\ deletions \in Nat
        /\ IsFiniteSet(Missed) /\ Cardinality(Missed) \in Nat
        /\ IsFiniteSet(Again) /\ Cardinality(Again) \in Nat
        /\ walk.offset \in Nat /\ Len(got) = walk.offset
    BY FollowTypes
  <1>2. PageSize \in Nat /\ PageSize >= 1
    BY <1>1, WalkTypes
  <1>3. PICK results \in Results(walk) : /\ got' = got \o results
                                         /\ walk' = After(walk, results)
    BY DEF Accept
  <1>4. /\ results \in Seq(Rows)
        /\ Len(results) \in Nat
        /\ Len(results) = IF walk.offset + PageSize <= Len(table) THEN PageSize
                          ELSE IF walk.offset <= Len(table) THEN Len(table) - walk.offset
                          ELSE 0
        /\ \A j \in 1..Len(results) : /\ walk.offset + j \in DOMAIN table
                                      /\ results[j] = table[walk.offset + j]
    BY <1>1, ResultTypes
  <1> DEFINE page == ToSet(results)
             old == page \cap ToSet(got)
             left == Again \ old
  <1>5. Len(got') = Len(got) + Len(results) /\ ToSet(got') = ToSet(got) \cup ToSet(results)
    <2>1. got \in Seq(Rows) /\ results \in Seq(Rows)
      BY <1>1, <1>4
    <2>2. Len(got \o results) = Len(got) + Len(results)
      BY <2>1, JoinedElements
    <2>3. ToSet(got \o results) = ToSet(got) \cup ToSet(results)
      BY <2>1, JoinedElements
    <2> QED
      BY <1>3, <2>2, <2>3
  <1>6. Cardinality(page) = Len(results) /\ IsFiniteSet(page)
    <2>1. DOMAIN results = 1..Len(results)
      BY <1>4
    <2>2. IsInjective(results)
      <3> SUFFICES ASSUME NEW a \in DOMAIN results, NEW b \in DOMAIN results,
                          results[a] = results[b]
                   PROVE  a = b
        BY DEF IsInjective
      <3>1. walk.offset + a = walk.offset + b
        BY <1>1, <1>4, <2>1
      <3> QED
        BY <1>1, <2>1, <3>1
    <2> QED
      BY <1>4, <2>2, DistinctCounted, ElementsFinite
  <1>7. old \subseteq Again
    <2> SUFFICES ASSUME NEW r \in old
                 PROVE  r \in Again
      OBVIOUS
    <2>1. PICK j \in DOMAIN results : results[j] = r
      BY DEF ToSet
    <2>2. j \in 1..Len(results)
      BY <1>4
    <2>3. walk.offset + j > walk.offset
      BY ONLY <1>1, <1>4, <2>2
    <2> QED
      BY <1>4, <2>1, <2>2, <2>3 DEF Again
  \* each row of the page is new, or is no longer before the walk
  <1>8. Len(got') + Cardinality(left) <= Cardinality(ToSet(got')) + moves
        /\ Cardinality(left) \in Nat
    <2>1. /\ IsFiniteSet(old) /\ Cardinality(old) \in Nat
          /\ Cardinality(left) = Cardinality(Again) - Cardinality(old)
      <3>1. IsFiniteSet(old) /\ Cardinality(old) \in Nat
        BY <1>1, <1>7, FewerElements
      <3>2. Cardinality(left) = Cardinality(Again) - Cardinality(Again \cap old)
        BY <1>1, <3>1, FS_Difference
      <3>3. Again \cap old = old
        BY <1>7
      <3> QED
        BY <3>1, <3>2, <3>3
    <2>2. Cardinality(ToSet(got')) = Cardinality(ToSet(got)) + Cardinality(page) - Cardinality(old)
      <3>1. Cardinality(ToSet(got) \cup page)
              = Cardinality(ToSet(got)) + Cardinality(page) - Cardinality(ToSet(got) \cap page)
        BY <1>1, <1>6, FS_Union
      <3>2. ToSet(got) \cap page = old
        OBVIOUS
      <3> QED
        BY <1>5, <3>1, <3>2
    <2>3. Len(got) + Cardinality(Again) <= Cardinality(ToSet(got)) + moves
      BY DEF FollowInv
    <2>4. Cardinality(left) \in Nat
      <3>1. left \subseteq Again
        OBVIOUS
      <3> QED
        BY <1>1, <3>1, FewerElements
    <2>5. Cardinality(page) = Len(results) /\ Len(got') = Len(got) + Len(results)
      BY <1>5, <1>6
    <2> HIDE DEF left, old, page
    <2> DEFINE n == Len(got)  k == Len(results)  a == Cardinality(Again)  o == Cardinality(old)
               c == Cardinality(ToSet(got))
    <2>6. n \in Nat /\ k \in Nat /\ a \in Nat /\ o \in Nat /\ c \in Nat
          /\ n + a <= c + moves
      BY <1>1, <1>4, <2>1, <2>3
    <2>7. Cardinality(left) = a - o /\ Len(got') = n + k /\ Cardinality(ToSet(got')) = c + k - o
      BY <2>1, <2>2, <2>5
    <2> HIDE DEF n, k, a, o, c
    <2>8. (n + k) + (a - o) <= (c + k - o) + moves
      BY <1>1, <2>6
    <2> QED
      BY <2>4, <2>7, <2>8
  <1>9. Cardinality(Missed) <= deletions /\ IsFiniteSet(atStart)
        /\ atStart \ touched \subseteq ToSet(table)
    BY DEF FollowInv
  <1>10. RepeatsBounded'
    <2>1. Len(got') \in Nat /\ Cardinality(ToSet(got')) \in Nat
      <3>1. got' \in Seq(Rows)
        BY WalkTypes DEF BudgetInv, IgdbClientTypeOK
      <3> QED
        BY <3>1, ElementsFinite
    <2> HIDE DEF left
    <2>2. Len(got') <= Cardinality(ToSet(got')) + moves
      BY <1>1, <1>8, <2>1
    <2> QED
      BY <2>2 DEF RepeatsBounded
  <1>11. CASE Len(results) < PageSize
    <2>1. walk' = [pc |-> "done", op |-> walk.op] /\ walk' \notin Walk
      BY <1>3, <1>11 DEF After, Onward, Walk
    <2>2. (atStart \ touched) \ ToSet(got') \subseteq Missed
      <3> SUFFICES ASSUME NEW r \in (atStart \ touched) \ ToSet(got')
                   PROVE  r \in Missed
        OBVIOUS
      <3>1. PICK j \in DOMAIN table : table[j] = r
        BY <1>9 DEF ToSet
      <3>2. r \notin page /\ r \notin ToSet(got)
        BY <1>5
      <3>3. ~ (j > walk.offset)
        <4> SUFFICES ASSUME j > walk.offset
                     PROVE  FALSE
          OBVIOUS
        <4>1. Len(results) = Len(table) - walk.offset
          BY <1>1, <1>2, <1>4, <1>11
        <4>2. j - walk.offset \in 1..Len(results) /\ walk.offset + (j - walk.offset) = j
          BY <1>1, <4>1
        <4>3. results[j - walk.offset] = r
          BY <1>4, <3>1, <4>2
        <4> QED
          BY <1>4, <3>2, <4>2, <4>3 DEF ToSet
      <3> QED
        BY <1>1, <3>1, <3>2, <3>3 DEF Missed
    <2>3. Cardinality((atStart \ touched) \ ToSet(got')) <= Cardinality(Missed)
          /\ Cardinality((atStart \ touched) \ ToSet(got')) \in Nat
      BY <1>1, <2>2, FewerElements
    <2>4. UntouchedNotSkipped'
      BY <1>1, <1>9, <2>3 DEF UntouchedNotSkipped
    <2> QED
      BY <1>9, <1>10, <2>1, <2>4 DEF FollowInv, WalkFollowsTable
  <1>12. CASE ~ (Len(results) < PageSize)
    <2>1. walk' = [walk EXCEPT !.pc = "post", !.offset = @ + PageSize, !.second = FALSE]
      BY <1>3, <1>12 DEF After, Onward
    <2>2. walk'.pc = "post" /\ walk'.offset = walk.offset + PageSize
      BY <2>1 DEF Walk
    <2>3. Len(results) = PageSize
      BY <1>1, <1>2, <1>4, <1>12
    <2>4. Missed' \subseteq Missed
      <3> SUFFICES ASSUME NEW r \in Missed'
                   PROVE  r \in Missed
        OBVIOUS
      <3>1. /\ r \in atStart \ touched /\ r \notin ToSet(got) /\ r \notin page
            /\ \E j \in DOMAIN table : j <= walk.offset + PageSize /\ table[j] = r
        BY <1>5, <2>2 DEF Missed
      <3>2. PICK j \in DOMAIN table : j <= walk.offset + PageSize /\ table[j] = r
        BY <3>1
      <3>3. ~ (j > walk.offset)
        <4> SUFFICES ASSUME j > walk.offset
                     PROVE  FALSE
          OBVIOUS
        <4>1. j - walk.offset \in 1..Len(results) /\ walk.offset + (j - walk.offset) = j
          BY <1>1, <1>2, <2>3, <3>2
        <4>2. results[j - walk.offset] = r
          BY <1>4, <3>2, <4>1
        <4> QED
          BY <1>4, <3>1, <4>1, <4>2 DEF ToSet
      <3> QED
        BY <1>1, <3>1, <3>2, <3>3 DEF Missed
    <2>5. Again' \subseteq left
      <3> SUFFICES ASSUME NEW r \in Again'
                   PROVE  r \in Again /\ r \notin page
        OBVIOUS
      <3>1. /\ r \in ToSet(got) \cup page
            /\ \E j \in DOMAIN table : j > walk.offset + PageSize /\ table[j] = r
        BY <1>5, <2>2 DEF Again
      <3>2. PICK j \in DOMAIN table : j > walk.offset + PageSize /\ table[j] = r
        BY <3>1
      <3>3. r \notin page
        <4> SUFFICES ASSUME r \in page
                     PROVE  FALSE
          OBVIOUS
        <4>1. PICK k \in DOMAIN results : results[k] = r
          BY DEF ToSet
        <4>2. k \in 1..Len(results) /\ table[walk.offset + k] = r
              /\ walk.offset + k \in DOMAIN table
          BY <1>4, <4>1
        <4>3. walk.offset + k = j
          BY <1>1, <3>2, <4>2
        <4> QED
          BY <1>1, <1>2, <2>3, <3>2, <4>2, <4>3
      <3>4. r \in ToSet(got) /\ j > walk.offset
        BY <1>1, <1>2, <3>1, <3>2, <3>3
      <3> QED
        BY <3>2, <3>3, <3>4 DEF Again
    <2>6. Cardinality(Missed') <= deletions
      BY <1>1, <1>9, <2>4, FewerElements
    <2>7. IsFiniteSet(left)
      <3>1. left \subseteq Again
        OBVIOUS
      <3> QED
        BY <1>1, <3>1, FewerElements
    <2>8. Cardinality(Again') <= Cardinality(left) /\ Cardinality(Again') \in Nat
      BY <2>5, <2>7, FewerElements
    <2>9. Len(got') + Cardinality(Again') <= Cardinality(ToSet(got')) + moves
      <3>1. Len(got') \in Nat /\ Cardinality(ToSet(got')) \in Nat
        <4>1. got' \in Seq(Rows)
          BY DEF BudgetInv, IgdbClientTypeOK
        <4> QED
          BY <4>1, ElementsFinite
      <3> HIDE DEF left
      <3> QED
        BY <1>1, <1>8, <2>8, <3>1
    <2>10. UntouchedNotSkipped'
      BY <2>2 DEF UntouchedNotSkipped
    <2> QED
      BY <1>9, <1>10, <2>6, <2>9, <2>10 DEF FollowInv, WalkFollowsTable
  <1> QED
    BY <1>11, <1>12

\* a chunk
LEMMA ChunkFollows ==
  ASSUME FollowInv, BudgetInv', walk \in Walk, walk.op # "iterate", walk'.op = walk.op,
         UNCHANGED <<table, atStart, touched, moves, deletions>>
  PROVE  FollowInv'
  BY DEF FollowInv, WalkFollowsTable, UntouchedNotSkipped, RepeatsBounded, ToSet

LEMMA FollowStep ==
  FollowInv /\ [IgdbClientNext]_clientVars => FollowInv'
  <1> SUFFICES ASSUME FollowInv, [IgdbClientNext]_clientVars
               PROVE  FollowInv'
    OBVIOUS
  <1>0. BudgetInv'
    BY BudgetStep DEF FollowInv
  <1>1. /\ IgdbClientTypeOK /\ table \in Seq(Rows)
        /\ walk.pc \in {"post", "renew", "again", "wait"} <=> walk \in Walk
        /\ walk \in Walk => walk.op \in {"iterate", "lookup"}
    BY WalkTypes DEF FollowInv, BudgetInv, Walk
  <1>2. ASSUME NEW rec \in Walk, Begin(rec), rec.offset = 0, rec.pc = "post"
        PROVE  FollowInv'
    <2>1. walk' = rec /\ got' = <<>> /\ atStart' = ToSet(table) /\ table' = table
          /\ touched' = {} /\ moves' = 0 /\ deletions' = 0
      BY <1>2 DEF Begin
    <2>2. Len(got') = 0 /\ ToSet(got') = {} /\ Cardinality({}) = 0
      BY <2>1, FS_EmptySet DEF ToSet
    <2>3. IsFiniteSet(atStart') /\ atStart' \ touched' \subseteq ToSet(table')
      BY <1>1, <2>1, ElementsFinite
    <2>4. Again' = {}
      BY <2>2 DEF Again
    <2>5. Missed' = {}
      <3>1. \A j \in DOMAIN table : ~ (j <= 0)
        BY <1>1
      <3> QED
        BY <1>2, <2>1, <3>1 DEF Missed
    <2>6. UntouchedNotSkipped'
      BY <1>2, <2>1 DEF UntouchedNotSkipped
    <2>7. RepeatsBounded'
      BY <2>1, <2>2 DEF RepeatsBounded
    <2>8. /\ Cardinality(Missed') <= deletions'
          /\ Len(got') + Cardinality(Again') <= Cardinality(ToSet(got')) + moves'
      <3>1. Cardinality(Missed') = 0 /\ Cardinality(Again') = 0 /\ Cardinality(ToSet(got')) = 0
        BY <2>2, <2>4, <2>5
      <3>2. deletions' = 0 /\ moves' = 0 /\ Len(got') = 0
        BY <2>1, <2>2
      <3> QED
        BY <3>1, <3>2
    <2> QED
      BY <1>0, <2>3, <2>6, <2>7, <2>8 DEF FollowInv, WalkFollowsTable
  <1>3. CASE BeginIteration
    <2> DEFINE rec == [pc |-> "post", op |-> "iterate", offset |-> 0, ids |-> <<>>,
                       second |-> FALSE]
    <2>1. rec \in Walk
      BY DEF Walk
    <2> QED
      BY <1>2, <1>3, <2>1 DEF BeginIteration
  <1>4. ASSUME NEW ids \in Wanted, BeginLookup(ids)
        PROVE  FollowInv'
    <2> DEFINE rec == [pc |-> "post", op |-> "lookup", offset |-> 0, ids |-> ids,
                       second |-> FALSE]
    <2>1. ids \in Seq(Rows) /\ Begin(rec)
      BY <1>4, IgdbClientAssumption DEF BeginLookup
    <2>2. rec \in Walk
      BY <2>1 DEF Walk
    <2> QED
      BY <1>2, <2>1, <2>2
  \* a failure, or a step towards the answer
  <1>5. ASSUME walk \in Walk, UNCHANGED <<table, got, atStart, touched, moves, deletions>>,
               \/ walk' \in {[pc |-> "failed", op |-> walk.op], [pc |-> "capped", op |-> walk.op]}
               \/ walk' = [walk EXCEPT !.pc = "renew"]
               \/ walk' = [walk EXCEPT !.pc = "again"]
               \/ walk' = [walk EXCEPT !.pc = "post"]
               \/ walk' = [walk EXCEPT !.pc = "wait", !.second = TRUE]
        PROVE  FollowInv'
    <2>1. CASE walk' \in {[pc |-> "failed", op |-> walk.op], [pc |-> "capped", op |-> walk.op]}
      <3>1. walk'.op = walk.op /\ walk'.pc # "done" /\ walk' \notin Walk
        BY <2>1 DEF Walk
      <3> QED
        BY <1>0, <1>5, <3>1, StandStillFollows
    <2>2. CASE ~ (walk' \in {[pc |-> "failed", op |-> walk.op], [pc |-> "capped", op |-> walk.op]})
      <3>1. walk'.op = walk.op /\ walk'.offset = walk.offset
            /\ walk'.pc \in {"renew", "again", "post", "wait"}
        BY <1>5, <2>2 DEF Walk
      <3> QED
        BY <1>0, <1>5, <3>1, StandStillFollows
    <2> QED
      BY <2>1, <2>2
  <1>6. ASSUME walk \in Walk, Accept \/ Refuse,
               UNCHANGED <<table, atStart, touched, moves, deletions>>
        PROVE  FollowInv'
    <2>1. CASE Refuse
      <3>1. UNCHANGED got /\ \/ walk' = [pc |-> "failed", op |-> walk.op]
                             \/ walk' = [walk EXCEPT !.pc = "wait", !.second = TRUE]
        BY <2>1 DEF Refuse
      <3> QED
        BY <1>5, <1>6, <3>1
    <2>2. CASE Accept /\ walk.op = "iterate"
      BY <1>0, <1>6, <2>2, PageFollows
    <2>3. CASE Accept /\ walk.op # "iterate"
      <3>1. PICK results \in Results(walk) : walk' = After(walk, results)
        BY <2>3 DEF Accept
      <3> DEFINE rest == SubSeq(walk.ids, PageSize + 1, Len(walk.ids))
      <3>2. \/ walk' = [pc |-> "done", op |-> walk.op]
            \/ walk' = [walk EXCEPT !.pc = "post", !.ids = rest]
        BY <2>3, <3>1 DEF After, Onward
      <3> HIDE DEF rest
      <3>3. walk'.op = walk.op
        <4>1. CASE walk' = [pc |-> "done", op |-> walk.op]
          BY <4>1
        <4>2. CASE walk' = [walk EXCEPT !.pc = "post", !.ids = rest]
          BY <1>6, <4>2 DEF Walk
        <4> QED
          BY <3>2, <4>1, <4>2
      <3> QED
        BY <1>0, <1>6, <2>3, <3>3, ChunkFollows
    <2> QED
      BY <1>6, <2>1, <2>2, <2>3
  <1>7. CASE Post
    <2>1. walk \in Walk /\ UNCHANGED <<table, atStart, touched, moves, deletions>>
      BY <1>1, <1>7 DEF Post
    <2>2. \/ walk' = [pc |-> "capped", op |-> walk.op] /\ UNCHANGED got
          \/ walk' = [walk EXCEPT !.pc = "renew"] /\ UNCHANGED got
          \/ Accept \/ Refuse
      BY <1>7 DEF Post
    <2> QED
      BY <1>5, <1>6, <2>1, <2>2
  <1>8. CASE Renew
    <2>1. walk \in Walk /\ UNCHANGED <<table, got, atStart, touched, moves, deletions>>
      BY <1>1, <1>8 DEF Renew
    <2>2. walk' = [pc |-> "failed", op |-> walk.op] \/ walk' = [walk EXCEPT !.pc = "again"]
      BY <1>8 DEF Renew
    <2> QED
      BY <1>5, <2>1, <2>2
  <1>9. CASE PostAgain
    <2>1. walk \in Walk /\ UNCHANGED <<table, atStart, touched, moves, deletions>>
      BY <1>1, <1>9 DEF PostAgain
    <2>2. \/ walk' = [pc |-> "failed", op |-> walk.op] /\ UNCHANGED got
          \/ Accept \/ Refuse
      BY <1>9 DEF PostAgain
    <2> QED
      BY <1>5, <1>6, <2>1, <2>2
  <1>10. CASE Wake
    <2>1. walk \in Walk /\ UNCHANGED <<table, got, atStart, touched, moves, deletions>>
          /\ walk' = [walk EXCEPT !.pc = "post"]
      BY <1>1, <1>10 DEF Wake
    <2> QED
      BY <1>5, <2>1
  <1>11. CASE TokenExpires \/ UNCHANGED clientVars
    <2>1. UNCHANGED <<table, got, atStart, touched, moves, deletions, walk>>
      BY <1>11 DEF TokenExpires, clientVars
    <2> QED
      BY <1>0, <2>1, StandStillFollows
  <1> QED
    BY <1>0, <1>3, <1>4, <1>7, <1>8, <1>9, <1>10, <1>11, UpdateFollows, CreationFollows,
       DeletionFollows DEF IgdbClientNext

\* Whatever rows are updated, created and deleted while a table is walked, a complete walk
\* misses no more of the untouched rows than rows were deleted, and receives no more rows
\* twice than rows moved to the front.
THEOREM WalksFollow == IgdbClientSpec => []WalkFollowsTable
  <1>1. IgdbClientInit => BudgetInv
    <2> SUFFICES ASSUME IgdbClientInit
                 PROVE  SentInv /\ PagesInv
      BY ClientTypesInit DEF BudgetInv
    <2>1. walk \notin Walk /\ sent = 0 /\ Len(got) = 0
      BY DEF IgdbClientInit, Walk
    <2>2. Limit \in Nat
      BY IgdbClientAssumption DEF Limit
    <2> QED
      BY <2>1, <2>2 DEF SentInv, PagesInv
  <1>2. IgdbClientInit => FollowInv
    <2> SUFFICES ASSUME IgdbClientInit
                 PROVE  FollowInv
      OBVIOUS
    <2>1. walk \notin Walk /\ walk.pc = "idle" /\ Len(got) = 0 /\ ToSet(got) = {} /\ atStart = {}
          /\ moves = 0
      BY DEF IgdbClientInit, Walk, ToSet
    <2>2. IsFiniteSet({}) /\ Cardinality({}) = 0
      BY FS_EmptySet
    <2> QED
      BY <1>1, <2>1, <2>2
         DEF FollowInv, WalkFollowsTable, UntouchedNotSkipped, RepeatsBounded
  <1>3. FollowInv => WalkFollowsTable
    BY DEF FollowInv
  <1> QED
    BY <1>2, <1>3, FollowStep, PTL DEF IgdbClientSpec


-----------------------------------------------------------------------------
(* The cache of single games: types, and that answers are current *)

\* what a worker may be at
AnyState == {Free} \cup DetailState \cup LookupState \cup DetailResponse \cup LookupResponse

\* An entry was stored by a request that had asked IGDB at most Slow before.
EntriesAreFresh ==
    \A g \in Wares : gameEntry[g] # NoEntry =>
        gameEntry[g].until <= gameEntry[g].read + GameTTL + Slow

\* A request is not older than Slow, and asked IGDB after it began.
InTime(r) == now <= r.asked + Slow /\ (r.pc = "put" => r.asked <= r.read)

\* A lookup has a game in hand that is not too old, has it still to look for or to
\* fetch, or IGDB did not have it all the while.
LooksUp(r) ==
    /\ \A g \in InHand(r) : r.asked < r.got[g] + GameTTL + Slow
    /\ r.pc \in {"look", "put"} => r.left # <<>>
    /\ ToSet(r.left) \cup r.missing \subseteq ToSet(r.of)
    /\ r.steady \subseteq onIgdb \cap ToSet(r.of)
    /\ r.pc = "look" => ToSet(r.of) \subseteq InHand(r) \cup r.missing \cup ToSet(r.left)
    /\ r.pc = "fetch" => ToSet(r.of) \subseteq InHand(r) \cup r.missing
    /\ r.pc = "put" => r.steady \subseteq InHand(r) \cup ToSet(r.left)

NotOld(r) == r.age < GameTTL + 2 * Slow
Complete(r) ==
    /\ r.steady \subseteq ToSet(r.items)
    /\ \E kept \in SUBSET ToSet(r.of) : r.items = Kept(r.of, kept)

WorkerInv(r) ==
    /\ r \in DetailState => InTime(r)
    /\ r \in LookupState => InTime(r) /\ LooksUp(r)
    /\ r \in DetailResponse => NotOld(r)
    /\ r \in LookupResponse => NotOld(r) /\ Complete(r)

GameInv ==
    /\ GameEntriesTypeOK
    /\ EntriesAreFresh
    /\ \A w \in Web : WorkerInv(web[w])

\* the numbers the arguments are about
LEMMA GameNumbers ==
  ASSUME GameInv
  PROVE  /\ GameTTL \in Nat /\ GameTTL >= 1 /\ Slow \in Nat /\ Horizon \in Nat
         /\ now \in Nat /\ now >= 1 /\ now <= Horizon /\ MaxMoves \in Nat
         /\ \A w \in Web : web[w] \in AnyState /\ WorkerInv(web[w])
  BY GameEntriesAssumption DEF GameInv, GameEntriesTypeOK, AnyState

\* what is asked for are games, and every list has some
LEMMA ListsAskedFor ==
  ASSUME NEW ids \in Lookups
  PROVE  ids \in Seq(Wares) /\ ids # <<>> /\ ToSet(ids) \subseteq Wares
  <1>1. ids \in Seq(Titles) /\ ids # <<>>
    BY GameEntriesAssumption
  <1>2. ToSet(ids) \subseteq Wares
    BY DEF Wares
  <1>3. \A i \in 1..Len(ids) : ids[i] \in Wares
    BY <1>1, <1>2 DEF ToSet
  <1> QED
    BY <1>1, <1>2, <1>3

\* An entry that a worker finds says when IGDB was asked, not too long ago.
LEMMA EntryFound ==
  ASSUME GameInv, NEW g \in Wares, gameEntry[g] # NoEntry
  PROVE  /\ gameEntry[g].read \in 1..now
         /\ now < gameEntry[g].read + GameTTL + Slow
  <1>1. gameEntry[g] \in [until: now + 1..now + GameTTL, read: 1..now]
    BY DEF GameInv, GameEntriesTypeOK
  <1>2. gameEntry[g].until <= gameEntry[g].read + GameTTL + Slow
    BY DEF GameInv, EntriesAreFresh
  <1>3. /\ gameEntry[g].until \in Nat /\ gameEntry[g].until > now
        /\ gameEntry[g].read \in 1..now
    BY <1>1, GameNumbers
  <1> QED
    BY <1>2, <1>3, GameNumbers

\* one worker takes a step
LEMMA OneWorkerTurns ==
  ASSUME GameInv, NEW w \in Web, NEW r \in AnyState, WorkerInv(r), Becomes(w, r),
         UNCHANGED <<onIgdb, comings, now>>,
         gameEntry' \in [Wares -> {NoEntry} \cup [until: now + 1..now + GameTTL, read: 1..now]],
         EntriesAreFresh'
  PROVE  GameInv'
  <1>1. web \in [Web -> AnyState]
    BY DEF GameInv, GameEntriesTypeOK, AnyState
  <1>2. web' \in [Web -> AnyState]
    BY <1>1 DEF Becomes
  <1>3. /\ DetailState' = DetailState /\ LookupState' = LookupState
        /\ AnyState' = AnyState
    BY DEF AnyState, DetailState, LookupState, DetailResponse, LookupResponse, AtWork
  <1>4. GameEntriesTypeOK'
    BY <1>2, <1>3 DEF GameInv, GameEntriesTypeOK, AnyState
  <1>5. ASSUME NEW x \in Web
        PROVE  WorkerInv(web[x])'
    <2>1. WorkerInv(web'[x])
      BY <1>1 DEF Becomes, GameInv
    <2> QED
      BY <2>1, <1>3 DEF WorkerInv, InTime, LooksUp, NotOld, Complete, InHand, DetailResponse,
                        LookupResponse
  <1> QED
    BY <1>4, <1>5 DEF GameInv

\* ... without storing anything
LEMMA OneWorkerReads ==
  ASSUME GameInv, NEW w \in Web, NEW r \in AnyState, WorkerInv(r), Becomes(w, r),
         UNCHANGED <<onIgdb, comings, now, gameEntry>>
  PROVE  GameInv'
  <1>1. /\ gameEntry' \in [Wares -> {NoEntry} \cup [until: now + 1..now + GameTTL, read: 1..now]]
        /\ EntriesAreFresh'
    BY DEF GameInv, GameEntriesTypeOK, EntriesAreFresh
  <1> QED
    BY <1>1, OneWorkerTurns

\* ... and stores a game it has asked IGDB for
LEMMA EntryStored ==
  ASSUME GameInv, NEW g \in Wares, NEW read \in 1..now, now <= read + Slow, now' = now,
         gameEntry' = [gameEntry EXCEPT ![g] = [until |-> now + GameTTL, read |-> read]]
  PROVE  /\ gameEntry' \in [Wares -> {NoEntry} \cup [until: now + 1..now + GameTTL, read: 1..now]]
         /\ EntriesAreFresh'
  <1> DEFINE e == [until |-> now + GameTTL, read |-> read]
  <1>1. gameEntry \in [Wares -> {NoEntry} \cup [until: now + 1..now + GameTTL, read: 1..now]]
    BY DEF GameInv, GameEntriesTypeOK
  <1>2. now + GameTTL \in now + 1..now + GameTTL
    BY GameNumbers
  <1>3. e \in [until: now + 1..now + GameTTL, read: 1..now]
    BY <1>2
  <1>4. e.until <= e.read + GameTTL + Slow
    BY GameNumbers
  <1>5. \A x \in Wares : gameEntry'[x] = IF x = g THEN e ELSE gameEntry[x]
    BY <1>1
  <1> HIDE DEF e
  <1>6. EntriesAreFresh'
    BY <1>4, <1>5 DEF EntriesAreFresh, GameInv
  <1>7. gameEntry' \in [Wares -> {NoEntry} \cup [until: now + 1..now + GameTTL, read: 1..now]]
    BY <1>1, <1>3 DEF e
  <1> QED
    BY <1>6, <1>7

LEMMA GameHoldsInitially == GameEntriesInit => GameInv
  <1> SUFFICES ASSUME GameEntriesInit PROVE GameInv
    OBVIOUS
  <1>1. /\ web \in [Web -> {Free}] /\ gameEntry \in [Wares -> {NoEntry}]
        /\ \A w \in Web : web[w] = Free
        /\ \A g \in Wares : gameEntry[g] = NoEntry
    BY DEF GameEntriesInit
  <1>2. 0 \in 0..MaxMoves /\ 1 \in 1..Horizon
    BY GameEntriesAssumption
  <1>3. GameEntriesTypeOK
    BY <1>1, <1>2 DEF GameEntriesInit, GameEntriesTypeOK
  <1>4. WorkerInv(Free)
    BY DEF WorkerInv, Free, DetailState, LookupState, DetailResponse, LookupResponse, AtWork
  <1> QED
    BY <1>1, <1>3, <1>4 DEF GameInv, EntriesAreFresh

\* A worker's pc and op say what its record is.
LEMMA StateOfWorker ==
  ASSUME GameInv, NEW w \in Web
  PROVE  /\ web[w].pc \in AtWork => \/ web[w] \in DetailState /\ web[w].op = "detail"
                                    \/ web[w] \in LookupState /\ web[w].op = "lookup"
         /\ web[w] \in DetailState \cup LookupState => web[w].pc \in AtWork
         /\ WorkerInv(web[w])
  <1>1. web[w] \in AnyState /\ WorkerInv(web[w])
    BY GameNumbers
  <1> QED
    BY <1>1 DEF AnyState, Free, DetailState, LookupState, DetailResponse, LookupResponse, AtWork

\* a detail request keeps its fields, and no other record passes for one
LEMMA DetailIs ==
  ASSUME NEW r \in DetailState
  PROVE  /\ r.pc \in AtWork /\ r.op = "detail" /\ r.of \in Wares /\ r.verified \in BOOLEAN
         /\ r.read \in 0..now /\ r.asked \in 1..now
         /\ r = [pc |-> r.pc, op |-> "detail", of |-> r.of, verified |-> r.verified,
                 read |-> r.read, asked |-> r.asked]
  BY DEF DetailState

LEMMA DetailGoesOn ==
  ASSUME NEW r \in DetailState, NEW pc \in AtWork, NEW read \in 0..now
  PROVE  LET s == [r EXCEPT !.pc = pc, !.read = read]
         IN  s \in DetailState /\ s.pc = pc /\ s.read = read /\ s.asked = r.asked
  BY DEF DetailState

LEMMA DetailMade ==
  ASSUME NEW r \in DetailState, InTime(r)
  PROVE  r \in AnyState /\ WorkerInv(r)
  <1>1. r.op = "detail" /\ r.pc \in AtWork
    BY DEF DetailState
  <1>2. r \notin LookupState /\ r \notin LookupResponse
    BY <1>1 DEF LookupState, LookupResponse
  <1>3. r \notin DetailResponse
    BY <1>1 DEF DetailResponse, AtWork
  <1> QED
    BY <1>2, <1>3 DEF WorkerInv, AnyState

\* what is visible of a game is that game or nothing
LEMMA VisibleOne ==
  ASSUME NEW g \in Wares, NEW verified
  PROVE  Visible(<<g>>, verified) \in Seq(Wares)
  <1>0. <<g>> \in Seq(Wares)
    OBVIOUS
  <1>1. PICK s \in Seq(Wares) : s = <<g>>
    BY <1>0
  <1>2. Kept(s, {x \in Titles : ~Adult(x)}) \in Seq(Wares)
    BY KeptElements
  <1> QED
    BY <1>1, <1>2 DEF Visible

LEMMA DetailAnswered ==
  ASSUME GameInv, NEW r \in DetailState, NEW read \in 1..now,
         now < read + GameTTL + 2 * Slow
  PROVE  DetailAnswer(r, read) \in AnyState /\ WorkerInv(DetailAnswer(r, read))
  <1> DEFINE a == DetailAnswer(r, read)
  <1>1. now - read \in Nat /\ now - read < GameTTL + 2 * Slow
    BY GameNumbers
  <1>2. r.of \in Wares
    BY DetailIs
  <1>3. Visible(<<r.of>>, r.verified) \in Seq(Wares)
    BY <1>2, VisibleOne
  <1>4. a \in DetailResponse /\ a.age = now - read
    BY <1>1, <1>2, <1>3 DEF DetailAnswer, DetailResponse
  <1>5. a \notin DetailState /\ a \notin LookupState /\ a \notin LookupResponse
    BY DEF DetailAnswer, DetailState, LookupState, LookupResponse, AtWork
  <1>6. NotOld(a)
    BY <1>1, <1>4 DEF NotOld
  <1> HIDE DEF a
  <1>7. a \in AnyState /\ WorkerInv(a)
    BY <1>4, <1>5, <1>6 DEF WorkerInv, AnyState
  <1> QED
    BY <1>7 DEF a

LEMMA DetailAsked ==
  ASSUME GameInv, NEW w \in Web, NEW g \in Opened, NEW verified \in BOOLEAN,
         AskDetail(w, g, verified)
  PROVE  GameInv'
  <1> DEFINE r == [pc |-> "look", op |-> "detail", of |-> g, verified |-> verified, read |-> 0,
                   asked |-> now]
  <1>1. g \in Wares
    BY DEF Wares
  <1>2. r \in DetailState /\ InTime(r)
    BY <1>1, GameNumbers DEF DetailState, InTime, AtWork
  <1>3. Becomes(w, r) /\ UNCHANGED <<onIgdb, comings, now, gameEntry>>
    BY DEF AskDetail, DetailRequest
  <1> HIDE DEF r
  <1>4. r \in AnyState /\ WorkerInv(r)
    BY <1>2, DetailMade
  <1> QED
    BY <1>3, <1>4, OneWorkerReads

LEMMA DetailLooked ==
  ASSUME GameInv, NEW w \in Web, LookDetail(w)
  PROVE  GameInv'
  <1> DEFINE r == web[w]
  <1>1. r \in DetailState /\ InTime(r) /\ r.of \in Wares
    BY StateOfWorker, DetailIs DEF LookDetail, AtWork, WorkerInv, DetailState, LookupState
  <1>2. UNCHANGED <<onIgdb, comings, now, gameEntry>>
    BY DEF LookDetail
  <1>3. CASE gameEntry[r.of] # NoEntry
    <2>1. PICK read \in 1..now : read = gameEntry[r.of].read /\ now < read + GameTTL + Slow
      BY <1>1, <1>3, EntryFound
    <2>2. now < read + GameTTL + 2 * Slow
      BY <2>1, GameNumbers
    <2>3. DetailAnswer(r, read) \in AnyState /\ WorkerInv(DetailAnswer(r, read))
      BY <1>1, <2>2, DetailAnswered
    <2>4. Becomes(w, DetailAnswer(r, read))
      BY <1>3, <2>1 DEF LookDetail
    <2> HIDE DEF r
    <2> QED
      BY <2>3, <2>4, <1>2, OneWorkerReads
  <1>4. CASE gameEntry[r.of] = NoEntry
    <2> DEFINE s == [r EXCEPT !.pc = "fetch"]
    <2>1. Becomes(w, s)
      BY <1>4 DEF LookDetail
    <2>2. s \in DetailState /\ InTime(s)
      BY <1>1 DEF DetailState, InTime, AtWork
    <2> HIDE DEF s
    <2>3. s \in AnyState /\ WorkerInv(s)
      BY <2>2, DetailMade
    <2> QED
      BY <2>1, <2>3, <1>2, OneWorkerReads
  <1> QED
    BY <1>3, <1>4

LEMMA DetailFetched ==
  ASSUME GameInv, NEW w \in Web, FetchDetail(w)
  PROVE  GameInv'
  <1> DEFINE r == web[w]
             s == [r EXCEPT !.pc = "put", !.read = now]
  <1>1. r \in DetailState /\ InTime(r)
    BY StateOfWorker DEF FetchDetail, AtWork, WorkerInv, LookupState
  <1>2. Becomes(w, s) /\ UNCHANGED <<onIgdb, comings, now, gameEntry>>
    BY DEF FetchDetail
  <1>3. now \in 0..now /\ r.asked <= now /\ now <= r.asked + Slow
    BY <1>1, DetailIs, GameNumbers DEF InTime
  <1>4. s \in DetailState /\ s.pc = "put" /\ s.read = now /\ s.asked = r.asked
    BY <1>1, <1>3, DetailGoesOn DEF AtWork
  <1> HIDE DEF s
  <1>5. s \in AnyState /\ WorkerInv(s)
    BY <1>3, <1>4, DetailMade DEF InTime
  <1> QED
    BY <1>2, <1>5, OneWorkerReads

LEMMA DetailPut ==
  ASSUME GameInv, NEW w \in Web, PutDetail(w)
  PROVE  GameInv'
  <1> DEFINE r == web[w]
  <1>1. r \in DetailState /\ InTime(r) /\ r.pc = "put" /\ r.of \in Wares
    BY StateOfWorker, DetailIs DEF PutDetail, AtWork, WorkerInv, LookupState
  <1>2. r.read \in 1..now /\ now <= r.read + Slow
    BY <1>1, DetailIs, GameNumbers DEF InTime
  <1>3. now < r.read + GameTTL + 2 * Slow
    BY <1>2, GameNumbers
  <1>4. DetailAnswer(r, r.read) \in AnyState /\ WorkerInv(DetailAnswer(r, r.read))
    BY <1>1, <1>2, <1>3, DetailAnswered
  <1>5. /\ gameEntry' = [gameEntry EXCEPT ![r.of] = [until |-> now + GameTTL, read |-> r.read]]
        /\ Becomes(w, DetailAnswer(r, r.read)) /\ UNCHANGED <<onIgdb, comings, now>>
    BY DEF PutDetail
  <1>6. /\ gameEntry' \in [Wares -> {NoEntry} \cup [until: now + 1..now + GameTTL, read: 1..now]]
        /\ EntriesAreFresh'
    BY <1>1, <1>2, <1>5, EntryStored
  <1> HIDE DEF r
  <1> QED
    BY <1>4, <1>5, <1>6, OneWorkerTurns

\* a worker that answers nothing more
LEMMA WorkerFreed ==
  ASSUME GameInv, NEW w \in Web, FetchFails(w) \/ Respond(w)
  PROVE  GameInv'
  <1>1. Free \in AnyState /\ WorkerInv(Free)
    BY DEF AnyState, WorkerInv, Free, DetailState, LookupState, DetailResponse, LookupResponse,
           AtWork
  <1>2. Becomes(w, Free) /\ UNCHANGED <<onIgdb, comings, now, gameEntry>>
    BY DEF FetchFails, Respond
  <1> QED
    BY <1>1, <1>2, OneWorkerReads

\* Time passes: what has expired goes, and the requests at work are not older than Slow.
LEMMA GameTimePasses ==
  ASSUME GameInv, TimePasses
  PROVE  GameInv'
  <1>1. now' = now + 1 /\ now < Horizon /\ web' = web /\ onIgdb' = onIgdb /\ comings' = comings
    BY DEF TimePasses
  <1>2. now \in Nat /\ now >= 1 /\ Horizon \in Nat /\ GameTTL \in Nat /\ Slow \in Nat
    BY GameNumbers
  <1>3. ASSUME NEW g \in Wares
        PROVE  /\ gameEntry'[g] \in {NoEntry} \cup [until: now' + 1..now' + GameTTL, read: 1..now']
               /\ gameEntry'[g] # NoEntry => gameEntry'[g] = gameEntry[g]
    <2>1. gameEntry'[g] = IF gameEntry[g].until > now' THEN gameEntry[g] ELSE NoEntry
      BY DEF TimePasses
    <2>2. gameEntry[g] = NoEntry \/ gameEntry[g] \in [until: now + 1..now + GameTTL, read: 1..now]
      BY DEF GameInv, GameEntriesTypeOK
    <2>3. CASE gameEntry[g].until > now' /\ gameEntry[g] # NoEntry
      <3>1. gameEntry[g].until \in now' + 1..now' + GameTTL /\ gameEntry[g].read \in 1..now'
        BY <1>1, <1>2, <2>2, <2>3
      <3>2. gameEntry[g] \in [until: now' + 1..now' + GameTTL, read: 1..now']
        BY <3>1, <2>2, <2>3
      <3> QED
        BY <2>1, <2>3, <3>2
    <2> QED
      BY <2>1, <2>3
  <1>4. gameEntry' = [g \in Wares |-> gameEntry'[g]]
    BY DEF TimePasses
  <1>5. gameEntry' \in [Wares -> {NoEntry} \cup [until: now' + 1..now' + GameTTL, read: 1..now']]
    BY <1>3, <1>4
  <1>6. EntriesAreFresh'
    BY <1>3 DEF EntriesAreFresh, GameInv
  <1>7. /\ 1..now \subseteq 1..now' /\ 0..now \subseteq 0..now' /\ now' \in 1..Horizon
    BY <1>1, <1>2
  <1>8. DetailState \subseteq DetailState'
    BY <1>7 DEF DetailState
  <1>9. LookupState \subseteq LookupState'
    <2>1. [Wares -> 0..now] \subseteq [Wares -> 0..now']
      BY <1>7
    <2> QED
      BY <1>7, <2>1 DEF LookupState
  <1>10. DetailResponse' = DetailResponse /\ LookupResponse' = LookupResponse
    BY DEF DetailResponse, LookupResponse
  <1>11. web \in [Web -> AnyState]
    BY DEF GameInv, GameEntriesTypeOK, AnyState
  <1>12. GameEntriesTypeOK'
    <2>1. web' \in [Web -> {Free} \cup DetailState' \cup LookupState'
                              \cup DetailResponse' \cup LookupResponse']
      BY <1>1, <1>8, <1>9, <1>10, <1>11 DEF AnyState
    <2> QED
      BY <1>1, <1>5, <1>7, <2>1 DEF GameInv, GameEntriesTypeOK
  <1>13. ASSUME NEW w \in Web
         PROVE  WorkerInv(web[w])'
    <2> DEFINE r == web[w]
    <2>1. r \in AnyState /\ WorkerInv(r)
      BY GameNumbers
    <2>2. r \in DetailState' \cup LookupState' => r.pc \in AtWork
      BY DEF DetailState, LookupState
    <2>3. r.pc \in AtWork => r.asked < now' + 1 /\ now' <= r.asked + Slow
      <3> SUFFICES ASSUME r.pc \in AtWork PROVE r.asked < now' + 1 /\ now' <= r.asked + Slow
        OBVIOUS
      <3>1. w \in Working
        BY DEF Working, AtWork
      <3>2. now - r.asked < Slow
        BY <3>1 DEF TimePasses
      <3>3. r.asked \in 1..now
        BY StateOfWorker DEF DetailState, LookupState
      <3> QED
        BY <1>1, <1>2, <3>2, <3>3
    <2>4. r \in DetailState' => r \in DetailState /\ InTime(r)
      <3>1. r \in DetailState' => r.op = "detail" /\ r.pc \in AtWork
        BY DEF DetailState
      <3> QED
        BY <3>1, StateOfWorker DEF WorkerInv
    <2>5. r \in LookupState' => r \in LookupState /\ InTime(r) /\ LooksUp(r)
      <3>1. r \in LookupState' => r.op = "lookup" /\ r.pc \in AtWork
        BY DEF LookupState
      <3> QED
        BY <3>1, StateOfWorker DEF WorkerInv
    <2>6. r \in DetailState' => InTime(r)'
      BY <1>1, <2>2, <2>3, <2>4 DEF InTime
    <2>7. r \in LookupState' => InTime(r)' /\ LooksUp(r)'
      BY <1>1, <2>2, <2>3, <2>5 DEF InTime, LooksUp, InHand
    <2> QED
      BY <1>1, <1>10, <2>1, <2>6, <2>7 DEF WorkerInv, NotOld, Complete
  <1> QED
    BY <1>6, <1>12, <1>13 DEF GameInv

\* A game is removed or added: it is no longer one that IGDB has had all the while.
LEMMA GameMoves ==
  ASSUME GameInv, NEW g \in Wares, IgdbChanges(g)
  PROVE  GameInv'
  <1>1. /\ comings < MaxMoves /\ comings' = comings + 1
        /\ onIgdb' = IF g \in onIgdb THEN onIgdb \ {g} ELSE onIgdb \cup {g}
        /\ UNCHANGED <<now, gameEntry>>
    BY DEF IgdbChanges
  <1>2. onIgdb' \subseteq Wares /\ onIgdb \ {g} \subseteq onIgdb'
    BY <1>1 DEF GameInv, GameEntriesTypeOK
  <1>3. comings' \in 0..MaxMoves
    BY <1>1, GameNumbers DEF GameInv, GameEntriesTypeOK
  <1>4. ASSUME NEW w \in Web
        PROVE  web'[w] \in AnyState /\ WorkerInv(web[w])'
    <2> PICK r : r = web[w]
      OBVIOUS
    <2>0. web'[w] = IF w \in Working /\ r.op = "lookup" THEN [r EXCEPT !.steady = @ \ {g}] ELSE r
      BY DEF IgdbChanges
    <2>1. r \in AnyState /\ WorkerInv(r)
      BY GameNumbers
    <2>2. w \in Working <=> r.pc \in AtWork
      BY DEF Working, AtWork
    <2>3. CASE w \in Working /\ r.op = "lookup"
      <3> PICK s : s = [r EXCEPT !.steady = @ \ {g}]
        OBVIOUS
      <3>1. r \in LookupState /\ InTime(r) /\ LooksUp(r)
        BY <2>2, <2>3, StateOfWorker DEF WorkerInv, DetailState
      <3>2. /\ s \in LookupState
            /\ s.pc = r.pc /\ s.of = r.of /\ s.left = r.left /\ s.missing = r.missing
            /\ s.got = r.got /\ s.read = r.read /\ s.asked = r.asked
            /\ s.steady = r.steady \ {g}
        BY <3>1 DEF LookupState
      <3>3. InTime(s)'
        BY <1>1, <3>1, <3>2 DEF InTime
      <3>4. LooksUp(s)'
        BY <1>1, <1>2, <3>1, <3>2 DEF LooksUp, InHand
      <3>5. s \notin DetailState /\ s \notin DetailResponse /\ s \notin LookupResponse
        BY <3>2 DEF LookupState, DetailState, DetailResponse, LookupResponse, AtWork
      <3>6. s \in AnyState /\ WorkerInv(s)'
        BY <1>1, <3>2, <3>3, <3>4, <3>5 DEF AnyState, WorkerInv, DetailState, DetailResponse,
                                            LookupResponse
      <3> QED
        BY <2>0, <2>3, <3>6
    <2>4. CASE ~(w \in Working /\ r.op = "lookup")
      <3>1. web'[w] = r
        BY <2>0, <2>4
      <3>2. r \notin LookupState
        BY <2>2, <2>4 DEF LookupState
      <3>3. /\ r \in DetailState => InTime(r)'
            /\ r \in DetailResponse => NotOld(r)'
            /\ r \in LookupResponse => NotOld(r)' /\ Complete(r)'
        BY <1>1, <2>1 DEF WorkerInv, InTime, NotOld, Complete
      <3>4. WorkerInv(r)'
        BY <1>1, <3>2, <3>3 DEF WorkerInv, DetailState, LookupState, DetailResponse, LookupResponse
      <3> QED
        BY <2>1, <3>1, <3>4
    <2> QED
      BY <2>3, <2>4
  <1>5. web' = [w \in Web |-> web'[w]]
    BY DEF IgdbChanges
  <1>6. AnyState' = AnyState
    BY <1>1 DEF AnyState, DetailState, LookupState, DetailResponse, LookupResponse
  <1>7. web' \in [Web -> AnyState']
    BY <1>4, <1>5, <1>6
  <1>8. GameEntriesTypeOK'
    BY <1>1, <1>2, <1>3, <1>7 DEF GameInv, GameEntriesTypeOK, AnyState
  <1>9. EntriesAreFresh'
    BY <1>1 DEF GameInv, EntriesAreFresh
  <1> QED
    BY <1>4, <1>8, <1>9 DEF GameInv

-----------------------------------------------------------------------------
(* Lookups *)

LEMMA MinIs ==
  ASSUME NEW T, T \subseteq Nat, T # {}
  PROVE  Min(T) \in T /\ Min(T) \in Nat /\ \A y \in T : Min(T) <= y
  BY LeastExists DEF Min

LEMMA HeadAndTail ==
  ASSUME NEW R, NEW s \in Seq(R), s # <<>>
  PROVE  /\ Head(s) \in R /\ Tail(s) \in Seq(R)
         /\ ToSet(s) = {Head(s)} \cup ToSet(Tail(s))
  <1>1. /\ Head(s) \in R /\ Head(s) = s[1] /\ Tail(s) \in Seq(R)
        /\ Len(s) \in Nat /\ Len(s) >= 1 /\ Len(Tail(s)) = Len(s) - 1
        /\ \A i \in 1..Len(s) - 1 : Tail(s)[i] = s[i + 1]
    OBVIOUS
  <1>2. /\ DOMAIN s = 1..Len(s) /\ DOMAIN Tail(s) = 1..Len(s) - 1
    BY <1>1
  <1>3. \A i \in 2..Len(s) : i - 1 \in 1..Len(s) - 1 /\ s[i] = Tail(s)[i - 1]
    BY <1>1
  <1>4. ASSUME NEW x \in ToSet(s)
        PROVE  x \in {Head(s)} \cup ToSet(Tail(s))
    <2>1. PICK i \in 1..Len(s) : x = s[i]
      BY <1>2 DEF ToSet
    <2>2. CASE i = 1
      BY <1>1, <2>1, <2>2
    <2>3. CASE i # 1
      <3>1. i \in 2..Len(s)
        BY <1>1, <2>3
      <3> QED
        BY <1>2, <1>3, <2>1, <3>1 DEF ToSet
    <2> QED
      BY <2>2, <2>3
  <1>5. ASSUME NEW x \in {Head(s)} \cup ToSet(Tail(s))
        PROVE  x \in ToSet(s)
    <2>1. CASE x = Head(s)
      <3>1. 1 \in 1..Len(s)
        BY <1>1
      <3> QED
        BY <1>1, <1>2, <2>1, <3>1 DEF ToSet
    <2>2. CASE x \in ToSet(Tail(s))
      <3>1. PICK i \in 1..Len(s) - 1 : x = Tail(s)[i]
        BY <1>2, <2>2 DEF ToSet
      <3>2. i + 1 \in 1..Len(s) /\ x = s[i + 1]
        BY <1>1, <3>1
      <3> QED
        BY <1>2, <3>2 DEF ToSet
    <2> QED
      BY <2>1, <2>2
  <1> QED
    BY <1>1, <1>4, <1>5

\* what is kept of a list depends on its own elements only
LEMMA KeptOfItsOwn ==
  ASSUME NEW s, NEW S
  PROVE  Kept(s, S) = Kept(s, S \cap ToSet(s))
  <1>1. Places(s, S) = Places(s, S \cap ToSet(s))
    BY DEF Places, ToSet
  <1>2. \A k : Place(s, S, k) = Place(s, S \cap ToSet(s), k)
    BY <1>1 DEF Place
  <1> QED
    BY <1>1, <1>2 DEF Kept

LEMMA LookupIs ==
  ASSUME NEW r \in LookupState
  PROVE  /\ r.pc \in AtWork /\ r.op = "lookup" /\ r.of \in Lookups /\ r.left \in Seq(Wares)
         /\ r.missing \subseteq Wares /\ r.got \in [Wares -> 0..now] /\ r.read \in 0..now
         /\ r.asked \in 1..now /\ r.steady \subseteq Wares
         /\ \A g \in InHand(r) : g \in Wares /\ r.got[g] \in 1..now
  <1>1. /\ r.pc \in AtWork /\ r.op = "lookup" /\ r.of \in Lookups /\ r.left \in Seq(Wares)
        /\ r.missing \subseteq Wares /\ r.got \in [Wares -> 0..now] /\ r.read \in 0..now
        /\ r.asked \in 1..now /\ r.steady \subseteq Wares
    BY DEF LookupState
  <1>2. \A g \in InHand(r) : g \in Wares /\ r.got[g] \in 0..now /\ r.got[g] # 0
    BY <1>1 DEF InHand
  <1>3. \A i \in 0..now : i # 0 => i \in 1..now
    OBVIOUS
  <1> QED
    BY <1>1, <1>2, <1>3

LEMMA LookupMade ==
  ASSUME NEW r \in LookupState, InTime(r), LooksUp(r)
  PROVE  r \in AnyState /\ WorkerInv(r)
  <1>1. r.op = "lookup" /\ r.pc \in AtWork
    BY DEF LookupState
  <1>2. r \notin DetailState /\ r \notin DetailResponse
    BY <1>1 DEF DetailState, DetailResponse
  <1>3. r \notin LookupResponse
    BY <1>1 DEF LookupResponse, AtWork
  <1> QED
    BY <1>2, <1>3 DEF WorkerInv, AnyState

\* A worker at work on a lookup keeps what a lookup keeps.
LEMMA LookupOf ==
  ASSUME GameInv, NEW w \in Web, web[w].pc \in AtWork, web[w].op = "lookup"
  PROVE  /\ web[w] \in LookupState /\ InTime(web[w]) /\ LooksUp(web[w])
         /\ now <= web[w].asked + Slow
  <1>1. web[w] \in LookupState
    BY StateOfWorker DEF DetailState
  <1> QED
    BY <1>1, StateOfWorker DEF WorkerInv, InTime

LEMMA LookupAnswered ==
  ASSUME GameInv, NEW r \in LookupState, now <= r.asked + Slow,
         \A g \in InHand(r) : r.asked < r.got[g] + GameTTL + Slow,
         r.steady \subseteq InHand(r), r.steady \subseteq ToSet(r.of)
  PROVE  LookupAnswer(r) \in AnyState /\ WorkerInv(LookupAnswer(r))
  <1> DEFINE M == {r.got[g] : g \in InHand(r)} \cup {now}
             items == Kept(r.of, InHand(r))
             a == [pc |-> "answered", op |-> "lookup", of |-> r.of, items |-> items,
                   steady |-> r.steady, age |-> now - Min(M)]
  <1>1. M \subseteq Nat /\ now \in M
    BY LookupIs, GameNumbers
  <1>2. Min(M) \in M /\ Min(M) \in Nat /\ Min(M) <= now
    BY <1>1, MinIs
  <1>3. now < Min(M) + GameTTL + 2 * Slow
    <2>1. CASE Min(M) = now
      BY <2>1, GameNumbers
    <2>2. CASE Min(M) # now
      <3>1. PICK g \in InHand(r) : Min(M) = r.got[g]
        BY <1>2, <2>2
      <3>2. r.asked < r.got[g] + GameTTL + Slow /\ r.got[g] \in Nat /\ r.asked \in Nat
        BY <3>1, LookupIs, GameNumbers
      <3> QED
        BY <3>1, <3>2, GameNumbers
    <2> QED
      BY <2>1, <2>2
  <1>4. now - Min(M) \in Nat /\ now - Min(M) < GameTTL + 2 * Slow
    BY <1>2, <1>3, GameNumbers
  <1>5. r.of \in Lookups /\ r.of \in Seq(Wares) /\ r.steady \subseteq Wares
    BY LookupIs, ListsAskedFor
  <1>6. items \in Seq(Wares) /\ ToSet(items) = ToSet(r.of) \cap InHand(r)
    BY <1>5, KeptElements
  <1>7. items = Kept(r.of, InHand(r) \cap ToSet(r.of))
    BY KeptOfItsOwn
  <1>8. LookupAnswer(r) = a
    BY DEF LookupAnswer, Response
  <1> HIDE DEF M, items
  <1>9. /\ a \in LookupResponse
        /\ a.pc = "answered" /\ a.op = "lookup" /\ a.of = r.of /\ a.items = items
        /\ a.steady = r.steady /\ a.age = now - Min(M)
    BY <1>4, <1>5, <1>6 DEF LookupResponse
  <1> HIDE DEF a
  <1>10. NotOld(a) /\ Complete(a)
    <2>1. NotOld(a)
      BY <1>4, <1>9 DEF NotOld
    <2>2. a.steady \subseteq ToSet(a.items)
      BY <1>6, <1>9
    <2>3. InHand(r) \cap ToSet(r.of) \in SUBSET ToSet(a.of) /\ a.items = Kept(a.of, InHand(r) \cap ToSet(r.of))
      BY <1>7, <1>9
    <2> QED
      BY <2>1, <2>2, <2>3 DEF Complete
  <1>11. a \notin DetailState /\ a \notin LookupState /\ a \notin DetailResponse
    BY <1>9 DEF DetailState, LookupState, DetailResponse, AtWork
  <1>12. a \in AnyState /\ WorkerInv(a)
    BY <1>9, <1>10, <1>11 DEF AnyState, WorkerInv
  <1> QED
    BY <1>8, <1>12

LEMMA LookupAsked ==
  ASSUME GameInv, NEW w \in Web, NEW ids \in Lookups, AskMany(w, ids)
  PROVE  GameInv'
  <1> DEFINE r == [pc |-> "look", op |-> "lookup", of |-> ids, left |-> ids, missing |-> {},
                   got |-> [g \in Wares |-> 0], read |-> 0, asked |-> now,
                   steady |-> onIgdb \cap ToSet(ids)]
  <1>1. ids \in Seq(Wares) /\ ids # <<>> /\ ToSet(ids) \subseteq Wares
    BY ListsAskedFor
  <1>2. 0 \in 0..now /\ now \in 1..now /\ now <= now + Slow
    BY GameNumbers
  <1>3. [g \in Wares |-> 0] \in [Wares -> 0..now]
    BY <1>2
  <1>4. /\ r \in LookupState
        /\ r.pc = "look" /\ r.of = ids /\ r.left = ids /\ r.missing = {} /\ r.asked = now
        /\ r.got = [g \in Wares |-> 0] /\ r.steady = onIgdb \cap ToSet(ids)
    BY <1>1, <1>2, <1>3 DEF LookupState, AtWork
  <1>5. Becomes(w, r) /\ UNCHANGED <<onIgdb, comings, now, gameEntry>>
    BY DEF AskMany, LookupRequest
  <1> HIDE DEF r
  <1>6. InHand(r) = {}
    BY <1>4 DEF InHand
  <1>7. InTime(r) /\ LooksUp(r)
    BY <1>1, <1>2, <1>4, <1>6 DEF InTime, LooksUp
  <1>8. r \in AnyState /\ WorkerInv(r)
    BY <1>4, <1>7, LookupMade
  <1> QED
    BY <1>5, <1>8, OneWorkerReads

LEMMA LookupLooked ==
  ASSUME GameInv, NEW w \in Web, LookOne(w)
  PROVE  GameInv'
  <1> DEFINE r == web[w]
             g == Head(r.left)
             s == IF gameEntry[g] # NoEntry
                  THEN [r EXCEPT !.left = Tail(@), !.got[g] = gameEntry[g].read]
                  ELSE [r EXCEPT !.left = Tail(@), !.missing = @ \cup {g}]
  <1>1. /\ r.pc = "look" /\ r \in LookupState /\ InTime(r) /\ LooksUp(r)
        /\ now <= r.asked + Slow
    BY LookupOf DEF LookOne, AtWork
  <1>2. /\ Becomes(w, IF s.left # <<>> THEN s
                      ELSE IF s.missing = {} THEN LookupAnswer(s) ELSE [s EXCEPT !.pc = "fetch"])
        /\ UNCHANGED <<onIgdb, comings, now, gameEntry>>
    BY DEF LookOne
  <1>3. /\ g \in Wares /\ Tail(r.left) \in Seq(Wares)
        /\ ToSet(r.left) = {g} \cup ToSet(Tail(r.left))
    <2>1. r.left \in Seq(Wares) /\ r.left # <<>>
      BY <1>1, LookupIs DEF LooksUp
    <2> HIDE DEF r
    <2> QED
      BY <2>1, HeadAndTail
  <1> HIDE DEF g, r
  <1>4. /\ s \in LookupState
        /\ s.pc = "look" /\ s.of = r.of /\ s.left = Tail(r.left) /\ s.read = r.read
        /\ s.asked = r.asked /\ s.steady = r.steady
        /\ \A x \in InHand(s) : s.asked < s.got[x] + GameTTL + Slow
        /\ InHand(s) \cup s.missing = InHand(r) \cup r.missing \cup {g}
        /\ s.missing \subseteq r.missing \cup {g}
    <2>1. CASE gameEntry[g] # NoEntry
      <3> DEFINE t == [r EXCEPT !.left = Tail(@), !.got[g] = gameEntry[g].read]
      <3>1. gameEntry[g].read \in 1..now /\ now < gameEntry[g].read + GameTTL + Slow
        BY <1>3, <2>1, EntryFound
      <3>2. [r.got EXCEPT ![g] = gameEntry[g].read] \in [Wares -> 0..now]
        <4>1. r.got \in [Wares -> 0..now] /\ gameEntry[g].read \in 0..now
          BY <1>1, <3>1, LookupIs, GameNumbers
        <4> QED
          BY <4>1
      <3>3. /\ t \in LookupState
            /\ t.pc = r.pc /\ t.of = r.of /\ t.left = Tail(r.left) /\ t.read = r.read
            /\ t.asked = r.asked /\ t.steady = r.steady /\ t.missing = r.missing
            /\ t.got = [r.got EXCEPT ![g] = gameEntry[g].read]
        BY <1>1, <1>3, <3>2 DEF LookupState
      <3>4. s = t
        BY <2>1
      <3> HIDE DEF t, s
      <3>5. \A x \in Wares : t.got[x] = IF x = g THEN gameEntry[g].read ELSE r.got[x]
        BY <1>1, <3>3, LookupIs
      <3>6. InHand(t) = InHand(r) \cup {g}
        BY <1>3, <3>1, <3>5 DEF InHand
      <3>7. r.asked < gameEntry[g].read + GameTTL + Slow
        BY <1>1, <3>1, LookupIs, GameNumbers
      <3>8. \A x \in InHand(t) : t.asked < t.got[x] + GameTTL + Slow
        BY <1>1, <3>3, <3>5, <3>6, <3>7 DEF LooksUp, InHand
      <3> QED
        BY <1>1, <3>3, <3>4, <3>6, <3>8
    <2>2. CASE gameEntry[g] = NoEntry
      <3> DEFINE t == [r EXCEPT !.left = Tail(@), !.missing = @ \cup {g}]
      <3>1. /\ t \in LookupState
            /\ t.pc = r.pc /\ t.of = r.of /\ t.left = Tail(r.left) /\ t.read = r.read
            /\ t.asked = r.asked /\ t.steady = r.steady /\ t.missing = r.missing \cup {g}
            /\ t.got = r.got
        BY <1>1, <1>3 DEF LookupState
      <3>2. s = t
        BY <2>2
      <3> HIDE DEF t, s
      <3>3. InHand(t) = InHand(r)
        BY <3>1 DEF InHand
      <3> QED
        BY <1>1, <3>1, <3>2, <3>3 DEF LooksUp
    <2> QED
      BY <2>1, <2>2
  <1> HIDE DEF s
  <1>5. /\ ToSet(s.left) \cup s.missing \subseteq ToSet(s.of)
        /\ s.steady \subseteq onIgdb \cap ToSet(s.of)
        /\ ToSet(s.of) \subseteq InHand(s) \cup s.missing \cup ToSet(s.left)
    <2>1. /\ ToSet(r.left) \cup r.missing \subseteq ToSet(r.of)
          /\ r.steady \subseteq onIgdb \cap ToSet(r.of)
          /\ ToSet(r.of) \subseteq InHand(r) \cup r.missing \cup ToSet(r.left)
      BY <1>1 DEF LooksUp
    <2> QED
      BY <1>3, <1>4, <2>1
  <1>6. CASE s.left # <<>>
    <2>1. InTime(s) /\ LooksUp(s)
      BY <1>1, <1>4, <1>5, <1>6 DEF InTime, LooksUp
    <2>2. s \in AnyState /\ WorkerInv(s)
      BY <1>4, <2>1, LookupMade
    <2> QED
      BY <1>2, <1>6, <2>2, OneWorkerReads
  <1>7. CASE s.left = <<>> /\ s.missing = {}
    <2>1. ToSet(s.left) = {}
      BY <1>7 DEF ToSet
    <2>2. s.steady \subseteq InHand(s) /\ s.steady \subseteq ToSet(s.of)
      BY <1>5, <1>7, <2>1
    <2>3. LookupAnswer(s) \in AnyState /\ WorkerInv(LookupAnswer(s))
      BY <1>1, <1>4, <2>2, LookupAnswered
    <2> QED
      BY <1>2, <1>7, <2>3, OneWorkerReads
  <1>8. CASE s.left = <<>> /\ s.missing # {}
    <2> DEFINE t == [s EXCEPT !.pc = "fetch"]
    <2>1. /\ t \in LookupState
          /\ t.pc = "fetch" /\ t.of = s.of /\ t.left = s.left /\ t.read = s.read
          /\ t.asked = s.asked /\ t.steady = s.steady /\ t.missing = s.missing /\ t.got = s.got
      BY <1>4 DEF LookupState, AtWork
    <2>2. Becomes(w, t)
      BY <1>2, <1>8
    <2> HIDE DEF t
    <2>3. InHand(t) = InHand(s) /\ ToSet(s.left) = {}
      BY <1>8, <2>1 DEF InHand, ToSet
    <2>4. InTime(t) /\ LooksUp(t)
      BY <1>1, <1>4, <1>5, <2>1, <2>3 DEF InTime, LooksUp
    <2>5. t \in AnyState /\ WorkerInv(t)
      BY <2>1, <2>4, LookupMade
    <2> QED
      BY <1>2, <2>2, <2>5, OneWorkerReads
  <1> QED
    BY <1>6, <1>7, <1>8

\* A sequence that lists a finite set has each of its elements.
LEMMA ListingOfSet ==
  ASSUME NEW S, IsFiniteSet(S), NEW s \in SetToSeqs(S)
  PROVE  s \in Seq(S) /\ ToSet(s) = S /\ (s = <<>> <=> S = {})
  <1> DEFINE n == Cardinality(S)
  <1>1. n \in Nat /\ s \in [1..n -> S] /\ \A i, j \in 1..n : i # j => s[i] # s[j]
    BY FS_CardinalityType DEF SetToSeqs
  <1>2. s \in Seq(S) /\ Len(s) = n /\ DOMAIN s = 1..n
    BY <1>1
  <1>3. IsInjective(s)
    BY <1>1, <1>2 DEF IsInjective
  <1>4. ToSet(s) \subseteq S
    BY <1>1, <1>2 DEF ToSet
  <1>5. Cardinality(ToSet(s)) = Cardinality(S)
    BY <1>2, <1>3, DistinctCounted
  <1>6. ToSet(s) = S
    BY <1>4, <1>5, FS_Subset
  <1>7. s = <<>> <=> S = {}
    BY <1>2, <1>6, FS_EmptySet DEF ToSet
  <1> QED
    BY <1>2, <1>6, <1>7

LEMMA LookupFetched ==
  ASSUME GameInv, NEW w \in Web, FetchMissing(w)
  PROVE  GameInv'
  <1> DEFINE r == web[w]
  <1>1. /\ r.pc = "fetch" /\ r \in LookupState /\ InTime(r) /\ LooksUp(r)
        /\ now <= r.asked + Slow
    BY LookupOf DEF FetchMissing, AtWork
  <1>2. UNCHANGED <<onIgdb, comings, now, gameEntry>>
    BY DEF FetchMissing
  <1>3. PICK found \in SetToSeqs(r.missing \cap onIgdb) :
          Becomes(w, IF found = <<>> THEN LookupAnswer(r)
                     ELSE [r EXCEPT !.pc = "put", !.read = now, !.left = found])
    BY DEF FetchMissing
  <1> HIDE DEF r
  <1>4. /\ r.missing \subseteq ToSet(r.of) /\ r.steady \subseteq onIgdb \cap ToSet(r.of)
        /\ ToSet(r.of) \subseteq InHand(r) \cup r.missing
    BY <1>1 DEF LooksUp
  <1>5. IsFiniteSet(r.missing \cap onIgdb)
    <2>1. r.of \in Seq(Wares)
      BY <1>1, LookupIs, ListsAskedFor
    <2>2. IsFiniteSet(ToSet(r.of))
      BY <2>1, ElementsFinite
    <2> QED
      BY <1>4, <2>2, FS_Subset
  <1>6. /\ found \in Seq(r.missing \cap onIgdb) /\ ToSet(found) = r.missing \cap onIgdb
        /\ found = <<>> <=> r.missing \cap onIgdb = {}
    BY <1>5, ListingOfSet
  <1>7. r.steady \subseteq InHand(r) \cup ToSet(found)
    BY <1>4, <1>6
  <1>8. CASE found = <<>>
    <2>1. r.steady \subseteq InHand(r) /\ r.steady \subseteq ToSet(r.of)
      BY <1>4, <1>6, <1>7, <1>8
    <2>2. LookupAnswer(r) \in AnyState /\ WorkerInv(LookupAnswer(r))
      BY <1>1, <2>1, LookupAnswered DEF LooksUp
    <2> QED
      BY <1>2, <1>3, <1>8, <2>2, OneWorkerReads
  <1>9. CASE found # <<>>
    <2> DEFINE t == [r EXCEPT !.pc = "put", !.read = now, !.left = found]
    <2>1. r.missing \cap onIgdb \subseteq Wares
      BY <1>1, LookupIs
    <2>2. found \in Seq(Wares)
      BY <1>6, <2>1
    <2>3. now \in 0..now
      BY GameNumbers
    <2>4. /\ t \in LookupState
          /\ t.pc = "put" /\ t.of = r.of /\ t.left = found /\ t.read = now
          /\ t.asked = r.asked /\ t.steady = r.steady /\ t.missing = r.missing /\ t.got = r.got
      BY <1>1, <2>2, <2>3 DEF LookupState, AtWork
    <2>5. Becomes(w, t)
      BY <1>3, <1>9
    <2> HIDE DEF t
    <2>6. InHand(t) = InHand(r)
      BY <2>4 DEF InHand
    <2>7. r.asked <= now
      BY <1>1, LookupIs, GameNumbers
    <2>8. InTime(t)
      BY <1>1, <2>4, <2>7 DEF InTime
    <2>9. LooksUp(t)
      BY <1>1, <1>4, <1>6, <1>7, <1>9, <2>4, <2>6 DEF LooksUp
    <2>10. t \in AnyState /\ WorkerInv(t)
      BY <2>4, <2>8, <2>9, LookupMade
    <2> QED
      BY <1>2, <2>5, <2>10, OneWorkerReads
  <1> QED
    BY <1>8, <1>9

LEMMA LookupPut ==
  ASSUME GameInv, NEW w \in Web, PutOne(w)
  PROVE  GameInv'
  <1> DEFINE r == web[w]
             g == Head(r.left)
             s == [r EXCEPT !.left = Tail(@), !.got[g] = r.read]
  <1>1. /\ r.pc = "put" /\ r \in LookupState /\ InTime(r) /\ LooksUp(r)
        /\ now <= r.asked + Slow
    BY LookupOf DEF PutOne, AtWork
  <1>2. /\ gameEntry' = [gameEntry EXCEPT ![g] = [until |-> now + GameTTL, read |-> r.read]]
        /\ Becomes(w, IF s.left = <<>> THEN LookupAnswer(s) ELSE s)
        /\ UNCHANGED <<onIgdb, comings, now>>
    BY DEF PutOne
  <1>3. /\ g \in Wares /\ Tail(r.left) \in Seq(Wares)
        /\ ToSet(r.left) = {g} \cup ToSet(Tail(r.left))
    <2>1. r.left \in Seq(Wares) /\ r.left # <<>>
      BY <1>1, LookupIs DEF LooksUp
    <2> HIDE DEF r
    <2> QED
      BY <2>1, HeadAndTail
  <1> HIDE DEF g, r
  <1>4. r.read \in 1..now /\ r.asked <= r.read /\ now <= r.read + Slow
    BY <1>1, LookupIs, GameNumbers DEF InTime
  <1>5. /\ gameEntry' \in [Wares -> {NoEntry} \cup [until: now + 1..now + GameTTL, read: 1..now]]
        /\ EntriesAreFresh'
    BY <1>2, <1>3, <1>4, EntryStored
  <1>6. [r.got EXCEPT ![g] = r.read] \in [Wares -> 0..now]
    <2>1. r.got \in [Wares -> 0..now] /\ r.read \in 0..now
      BY <1>1, LookupIs
    <2> QED
      BY <2>1
  <1>7. /\ s \in LookupState
        /\ s.pc = "put" /\ s.of = r.of /\ s.left = Tail(r.left) /\ s.read = r.read
        /\ s.asked = r.asked /\ s.steady = r.steady /\ s.missing = r.missing
        /\ s.got = [r.got EXCEPT ![g] = r.read]
    BY <1>1, <1>3, <1>6 DEF LookupState
  <1> HIDE DEF s
  <1>8. \A x \in Wares : s.got[x] = IF x = g THEN r.read ELSE r.got[x]
    BY <1>1, <1>7, LookupIs
  <1>9. InHand(s) = InHand(r) \cup {g}
    BY <1>3, <1>4, <1>8 DEF InHand
  <1>10. r.asked < r.read + GameTTL + Slow
    BY <1>1, <1>4, LookupIs, GameNumbers
  <1>11. \A x \in InHand(s) : s.asked < s.got[x] + GameTTL + Slow
    BY <1>1, <1>7, <1>8, <1>9, <1>10 DEF LooksUp, InHand
  <1>12. /\ ToSet(s.left) \cup s.missing \subseteq ToSet(s.of)
         /\ s.steady \subseteq onIgdb \cap ToSet(s.of)
         /\ s.steady \subseteq InHand(s) \cup ToSet(s.left)
    BY <1>1, <1>3, <1>7, <1>9 DEF LooksUp
  <1>13. CASE s.left = <<>>
    <2>1. s.steady \subseteq InHand(s) /\ s.steady \subseteq ToSet(s.of)
      BY <1>12, <1>13 DEF ToSet
    <2>2. LookupAnswer(s) \in AnyState /\ WorkerInv(LookupAnswer(s))
      BY <1>1, <1>7, <1>11, <2>1, LookupAnswered
    <2> QED
      BY <1>2, <1>5, <1>13, <2>2, OneWorkerTurns
  <1>14. CASE s.left # <<>>
    <2>1. InTime(s) /\ LooksUp(s)
      BY <1>1, <1>7, <1>11, <1>12, <1>14 DEF InTime, LooksUp
    <2>2. s \in AnyState /\ WorkerInv(s)
      BY <1>7, <2>1, LookupMade
    <2> QED
      BY <1>2, <1>5, <1>14, <2>2, OneWorkerTurns
  <1> QED
    BY <1>13, <1>14

-----------------------------------------------------------------------------
(* The theorems about the cache of single games *)

LEMMA GameIsPreserved == GameInv /\ [GameEntriesNext]_gameVars => GameInv'
  <1> SUFFICES ASSUME GameInv, [GameEntriesNext]_gameVars PROVE GameInv'
    OBVIOUS
  <1>1. CASE UNCHANGED gameVars
    <2>1. UNCHANGED <<onIgdb, comings, now, gameEntry, web>>
      BY <1>1 DEF gameVars
    <2>2. GameEntriesTypeOK'
      BY <2>1 DEF GameInv, GameEntriesTypeOK, DetailState, LookupState, DetailResponse,
                  LookupResponse
    <2>3. EntriesAreFresh'
      BY <2>1 DEF GameInv, EntriesAreFresh
    <2>4. ASSUME NEW w \in Web PROVE WorkerInv(web[w])'
      BY <2>1 DEF GameInv, WorkerInv, InTime, LooksUp, NotOld, Complete, InHand, DetailState,
                  LookupState, DetailResponse, LookupResponse
    <2> QED
      BY <2>1, <2>2, <2>3, <2>4 DEF GameInv
  <1>2. CASE GameEntriesNext
    <2>1. \/ TimePasses \/ \E g \in Wares : IgdbChanges(g)
          \/ \E w \in Web :
              \/ \E g \in Opened, verified \in BOOLEAN : AskDetail(w, g, verified)
              \/ \E ids \in Lookups : AskMany(w, ids)
              \/ LookDetail(w) \/ FetchDetail(w) \/ PutDetail(w)
              \/ LookOne(w) \/ FetchMissing(w) \/ PutOne(w)
              \/ FetchFails(w) \/ Respond(w)
      BY <1>2 DEF GameEntriesNext
    <2> QED
      BY <2>1, GameTimePasses, GameMoves, DetailAsked, LookupAsked, DetailLooked, DetailFetched,
         DetailPut, LookupLooked, LookupFetched, LookupPut, WorkerFreed
  <1> QED
    BY <1>1, <1>2

\* The cache of single games, the requests at work on it and their answers stay well
\* typed, for any games, lists, numbers of workers and bounds.
THEOREM GameEntriesTypes == GameEntriesSpec => []GameEntriesTypeOK
  <1>1. GameInv => GameEntriesTypeOK
    BY DEF GameInv
  <1> QED
    BY <1>1, GameHoldsInitially, GameIsPreserved, PTL DEF GameEntriesSpec

\* No answer is older than an entry's life and two requests, and a lookup answers in the
\* order asked and leaves out no game that IGDB had all the while.
THEOREM EntriesAnswerWell == GameEntriesSpec => []AnswersAreCurrent
  <1>1. GameInv => AnswersAreCurrent
    <2> SUFFICES ASSUME GameInv PROVE AnswersAreCurrent
      OBVIOUS
    <2>1. ASSUME NEW w \in Web, web[w].pc = "answered", web[w].op \in {"detail", "lookup"}
          PROVE  /\ web[w].age < GameTTL + 2 * Slow
                 /\ web[w].op = "lookup" => Complete(web[w])
      <3>1. web[w] \in AnyState /\ WorkerInv(web[w])
        BY GameNumbers
      <3>2. \/ web[w] \in DetailResponse /\ web[w].op = "detail"
            \/ web[w] \in LookupResponse
        BY <2>1, <3>1 DEF AnyState, Free, DetailState, LookupState, DetailResponse,
                          LookupResponse, AtWork
      <3> QED
        BY <3>1, <3>2 DEF WorkerInv, NotOld
    <2>2. NothingOutlivesItsTTL
      BY <2>1 DEF NothingOutlivesItsTTL, AnswersTo
    <2>3. LookupIsComplete
      BY <2>1 DEF LookupIsComplete, AnswersTo, Complete
    <2> QED
      BY <2>2, <2>3 DEF AnswersAreCurrent
  <1> QED
    BY <1>1, GameHoldsInitially, GameIsPreserved, PTL DEF GameEntriesSpec

-----------------------------------------------------------------------------
(* The pages of the game list *)

\* A finite set of numbers has a greatest.
LEMMA MaxIs ==
  ASSUME NEW T, T \subseteq Nat, T # {}, IsFiniteSet(T)
  PROVE  Max(T) \in T /\ \A y \in T : y <= Max(T)
  <1> DEFINE Above(x) == {y \in T : y > x}
             C == {Cardinality(Above(x)) : x \in T}
  <1>1. \A x \in T : IsFiniteSet(Above(x)) /\ Cardinality(Above(x)) \in Nat
    BY FS_Subset, FS_CardinalityType
  <1>2. C \subseteq Nat /\ C # {}
    BY <1>1
  <1>3. PICK c \in C : \A d \in C : c <= d
    <2> HIDE DEF C
    <2> QED
      BY <1>2, LeastExists
  <1>4. PICK x \in T : c = Cardinality(Above(x))
    OBVIOUS
  <1>5. \A z \in T : Cardinality(Above(x)) <= Cardinality(Above(z))
    BY <1>3, <1>4
  <1>6. \A y \in T : y <= x
    <2> SUFFICES ASSUME NEW y \in T, y > x PROVE FALSE
      OBVIOUS
    <2>0. x \in Nat /\ y \in Nat /\ ~(y > y) /\ \A z \in T : z > y => z > x
      OBVIOUS
    <2>1. Above(y) \subseteq Above(x) /\ y \in Above(x) /\ y \notin Above(y)
      BY <2>0
    <2> HIDE DEF Above
    <2>2. Cardinality(Above(y)) <= Cardinality(Above(x)) /\ Cardinality(Above(y)) # Cardinality(Above(x))
      BY <1>1, <2>1, FS_Subset
    <2> QED
      BY <1>1, <1>5, <2>2
  <1>7. \A y \in T : x >= y
    BY <1>6
  <1>8. Max(T) \in T /\ \A y \in T : Max(T) >= y
    BY <1>7 DEF Max
  <1> QED
    BY <1>8

\* as many pages as fit, rounded up, are enough
LEMMA Fits ==
  ASSUME NEW a \in Nat, NEW b \in Nat, b >= 1, NEW q \in Nat, q * b <= a
  PROVE  a \div b \in Nat /\ q <= a \div b
  <1> DEFINE d == a \div b
  <1>1. d \in Nat /\ d * b <= a /\ a < d * b + b
    OBVIOUS
  <1>2. ASSUME q > d PROVE FALSE
    <2>1. PICK k \in Nat : q = d + 1 + k
      BY <1>1, <1>2
    <2>2. q * b = d * b + b + k * b
      BY <1>1, <2>1
    <2>3. k * b >= 0
      OBVIOUS
    <2> QED
      BY <1>1, <2>2, <2>3
  <1> QED
    BY <1>1, <1>2

LastPage == Max({(Len(Orders[e]) + ListSize - 1) \div ListSize : e \in DOMAIN Orders} \cup {1})

LEMMA OrderIs ==
  ASSUME NEW e \in DOMAIN Orders
  PROVE  /\ Orders[e] \in Seq(Titles) /\ Len(Orders[e]) \in Nat
         /\ DOMAIN Orders[e] = 1..Len(Orders[e]) /\ IsInjective(Orders[e])
  <1>1. Orders \in Seq(Seq(Titles)) /\ IsInjective(Orders[e])
    BY ListPagesAssumption
  <1>2. Orders[e] \in Seq(Titles)
    BY <1>1
  <1> QED
    BY <1>1, <1>2

LEMMA PagesAre ==
  /\ LastPage \in Nat /\ LastPage >= 1 /\ Pages = 0..LastPage
  /\ \A e \in DOMAIN Orders, p \in Nat : p * ListSize <= Len(Orders[e]) + ListSize - 1 => p <= LastPage
  <1> DEFINE Of(e) == (Len(Orders[e]) + ListSize - 1) \div ListSize
             D == {Of(e) : e \in DOMAIN Orders}
  <1>1. ListSize \in Nat /\ ListSize >= 1
    BY ListPagesAssumption
  <1>2. ASSUME NEW e \in DOMAIN Orders, NEW p \in Nat, p * ListSize <= Len(Orders[e]) + ListSize - 1
        PROVE  p <= Of(e)
    <2> DEFINE a == Len(Orders[e]) + ListSize - 1
    <2>1. a \in Nat
      BY <1>1, OrderIs
    <2> HIDE DEF a
    <2>2. p <= a \div ListSize
      BY <1>1, <1>2, <2>1, Fits DEF a
    <2> QED
      BY <2>2 DEF a
  <1>3. ASSUME NEW e \in DOMAIN Orders
        PROVE  Of(e) \in Nat
    <2> DEFINE a == Len(Orders[e]) + ListSize - 1
    <2>1. a \in Nat
      BY <1>1, OrderIs
    <2> HIDE DEF a
    <2>2. 0 * ListSize <= a
      BY <1>1, <2>1
    <2>3. a \div ListSize \in Nat
      BY <1>1, <2>1, <2>2, Fits
    <2> QED
      BY <2>3 DEF a
  <1> HIDE DEF Of
  <1>4. IsFiniteSet(D)
    <2>1. IsFiniteSet(DOMAIN Orders)
      <3>1. PICK s \in Seq(Seq(Titles)) : s = Orders
        BY ListPagesAssumption
      <3> QED
        BY <3>1, PlacesFinite
    <2>2. [e \in DOMAIN Orders |-> Of(e)] \in Surjection(DOMAIN Orders, D)
      BY DEF Surjection
    <2> QED
      BY <2>1, <2>2, FS_Surjection
  <1>5. IsFiniteSet(D \cup {1}) /\ D \cup {1} \subseteq Nat /\ D \cup {1} # {}
    BY <1>3, <1>4, FS_AddElement
  <1>6. Max(D \cup {1}) \in Nat /\ \A y \in D \cup {1} : y <= Max(D \cup {1})
    <2> HIDE DEF D
    <2> QED
      BY <1>5, MaxIs
  <1>7. LastPage = Max(D \cup {1})
    BY DEF LastPage, Of
  <1>8. Pages = 0..LastPage
    BY DEF Pages, LastPage
  <1>9. LastPage \in Nat /\ LastPage >= 1
    BY <1>6, <1>7
  <1>10. \A e \in DOMAIN Orders : Of(e) <= LastPage /\ Of(e) \in Nat
    BY <1>3, <1>6, <1>7
  <1> QED
    BY <1>2, <1>8, <1>9, <1>10

\* A filter that keeps as many elements as the list has keeps the list.
LEMMA KeptWhole ==
  ASSUME NEW R, NEW s \in Seq(R), NEW S, Len(Kept(s, S)) = Len(s)
  PROVE  Kept(s, S) = s /\ \A i \in 1..Len(s) : s[i] \in S
  <1> DEFINE n == Len(s)
             P == Places(s, S)
  <1>1. n \in Nat /\ DOMAIN s = 1..n /\ Cardinality(P) = n
    BY KeptElements
  <1>2. IsFiniteSet(1..n) /\ Cardinality(1..n) = n
    BY <1>1, PlacesFinite
  <1>3. P \subseteq 1..n
    BY <1>1 DEF Places
  <1>4. P = 1..n
    BY <1>1, <1>2, <1>3, FS_Subset
  <1>5. ASSUME NEW k \in 1..n
        PROVE  Place(s, S, k) = k
    <2>1. \A i \in 1..n : {j \in P : j < i} = 1..i - 1
      BY <1>1, <1>4
    <2>2. \A i \in 1..n : Cardinality(1..i - 1) = i - 1
      <3> SUFFICES ASSUME NEW i \in 1..n PROVE Cardinality(1..i - 1) = i - 1
        OBVIOUS
      <3>1. 1 \in Int /\ i - 1 \in Int
        BY <1>1
      <3>2. Cardinality(1..i - 1) = IF 1 > i - 1 THEN 0 ELSE i - 1 - 1 + 1
        BY <3>1, FS_Interval
      <3> QED
        BY <1>1, <3>2
    <2>3. \A i \in 1..n : Cardinality({j \in P : j < i}) = i - 1
      BY <2>1, <2>2
    <2>4. \A i \in P : Cardinality({j \in P : j < i}) = k - 1 <=> i = k
      BY <1>1, <1>4, <2>3
    <2> HIDE DEF P
    <2>5. k \in P
      BY <1>4
    <2> QED
      BY <2>4, <2>5 DEF Place, P
  <1>6. Kept(s, S) = [k \in 1..n |-> s[k]]
    BY <1>1, <1>5 DEF Kept
  <1>7. s = [k \in 1..n |-> s[k]]
    BY <1>1
  <1> QED
    BY <1>1, <1>4, <1>6, <1>7 DEF Places

\* c is what follows the first n elements of s, as many as count, or as there are
CutFrom(c, s, n, count) ==
    /\ Len(c) = IF n >= Len(s) THEN 0 ELSE IF count < Len(s) - n THEN count ELSE Len(s) - n
    /\ \A i \in 1..Len(c) : c[i] = s[n + i]

LEMMA CutIs ==
  ASSUME NEW R, NEW s \in Seq(R), NEW n \in Nat, NEW count \in Nat
  PROVE  /\ Cut(s, n + 1, count) \in Seq(R)
         /\ CutFrom(Cut(s, n + 1, count), s, n, count)
  <1> DEFINE h == IF n + 1 + count - 1 < Len(s) THEN n + 1 + count - 1 ELSE Len(s)
  <1>1. h \in 0..Len(s) /\ Len(s) \in Nat
    OBVIOUS
  <1>2. Cut(s, n + 1, count) = SubSeq(s, n + 1, h)
    BY DEF Cut
  <1>3. CASE n > h
    <2> HIDE DEF h
    <2>1. SubSeq(s, n + 1, h) = <<>>
      BY <1>1, <1>3
    <2>2. n >= Len(s)
      BY <1>1, <1>3 DEF h
    <2>3. <<>> \in Seq(R) /\ CutFrom(<<>>, s, n, count)
      BY <2>2 DEF CutFrom
    <2> QED
      BY <1>2, <2>1, <2>3
  <1>4. CASE n <= h
    <2> HIDE DEF h
    <2>1. /\ SubSeq(s, n + 1, h) \in Seq(R) /\ Len(SubSeq(s, n + 1, h)) = h - n
          /\ \A i \in 1..h - n : SubSeq(s, n + 1, h)[i] = s[n + i]
      BY <1>1, <1>4
    <2>2. h - n = IF n >= Len(s) THEN 0 ELSE IF count < Len(s) - n THEN count ELSE Len(s) - n
      BY <1>1, <1>4 DEF h
    <2>3. CutFrom(SubSeq(s, n + 1, h), s, n, count)
      BY <2>1, <2>2 DEF CutFrom
    <2> QED
      BY <1>2, <2>1, <2>3
  <1> QED
    BY <1>1, <1>3, <1>4

NotAdult == {g \in Titles : ~Adult(g)}

\* how many games come before a page
Before(p) == (p - 1) * ListSize

\* where a page begins, and what is asked of IGDB for it
LEMMA WindowIs ==
  ASSUME NEW e \in DOMAIN Orders, NEW p \in Nat, p >= 1
  PROVE  LET n == Before(p)
             W == Window(e, p)
         IN  /\ n \in Nat /\ n + ListSize = p * ListSize
             /\ W \in Seq(Titles) /\ Len(W) \in Nat
             /\ Len(W) = IF n >= Len(Orders[e]) THEN 0
                         ELSE IF ListSize + 1 < Len(Orders[e]) - n THEN ListSize + 1
                         ELSE Len(Orders[e]) - n
             /\ \A i \in 1..Len(W) : W[i] = Orders[e][n + i]
  <1> DEFINE n == Before(p)
             W == Window(e, p)
  <1>1. ListSize \in Nat /\ ListSize >= 1
    BY ListPagesAssumption
  <1>2. n \in Nat /\ n + ListSize = p * ListSize
    <2>1. PICK q \in Nat : p = q + 1
      BY p - 1 \in Nat
    <2>2. p - 1 = q
      BY <2>1
    <2>3. q * ListSize \in Nat /\ q * ListSize + ListSize = (q + 1) * ListSize
      BY <1>1
    <2> QED
      BY <2>1, <2>2, <2>3 DEF Before
  <1>3. W = Cut(Orders[e], n + 1, ListSize + 1)
    BY DEF Window, Top, Before
  <1> HIDE DEF n
  <1> HIDE DEF W
  <1>4. Orders[e] \in Seq(Titles) /\ Len(Orders[e]) \in Nat
    BY OrderIs
  <1>5. W \in Seq(Titles) /\ CutFrom(W, Orders[e], n, ListSize + 1)
    <2>1. ListSize + 1 \in Nat
      BY <1>1
    <2> QED
      BY <1>2, <1>3, <1>4, <2>1, CutIs
  <1>6. Len(W) \in Nat
    BY <1>5
  <1> QED
    BY <1>2, <1>5, <1>6 DEF n, W, CutFrom

\* what a visitor is shown of a page, and when there is a next one
LEMMA PageShown ==
  ASSUME NEW e \in DOMAIN Orders, NEW p \in Nat, p >= 1, NEW verified \in BOOLEAN
  PROVE  LET n == Before(p)
             W == Window(e, p)
             V == Visible(W, verified)
             I == Cut(V, 1, ListSize)
         IN  /\ V \in Seq(Titles) /\ I \in Seq(Titles) /\ Len(V) \in Nat /\ Len(I) \in Nat
             /\ Len(V) <= Len(W) /\ Len(W) <= ListSize + 1
             /\ V = IF verified THEN W ELSE Kept(W, NotAdult)
             /\ Len(V) <= ListSize => I = V
             /\ Len(V) > ListSize =>
                   /\ p + 1 <= LastPage
                   /\ n + ListSize <= Len(Orders[e])
                   /\ Len(I) = ListSize
                   /\ \A i \in 1..ListSize :
                         I[i] = Orders[e][n + i] /\ (verified \/ ~Adult(I[i]))
  <1> DEFINE n == Before(p)
             W == Window(e, p)
             V == Visible(W, verified)
             I == Cut(V, 1, ListSize)
  <1>1. ListSize \in Nat /\ ListSize >= 1 /\ Len(Orders[e]) \in Nat
    BY ListPagesAssumption, OrderIs
  <1>2. /\ n \in Nat /\ n + ListSize = p * ListSize
        /\ W \in Seq(Titles) /\ Len(W) \in Nat
        /\ Len(W) = IF n >= Len(Orders[e]) THEN 0
                    ELSE IF ListSize + 1 < Len(Orders[e]) - n THEN ListSize + 1
                    ELSE Len(Orders[e]) - n
        /\ \A i \in 1..Len(W) : W[i] = Orders[e][n + i]
    BY WindowIs
  <1>3. V = IF verified THEN W ELSE Kept(W, NotAdult)
    BY DEF Visible, NotAdult
  <1> HIDE DEF n, W
  <1>4. /\ Kept(W, NotAdult) \in Seq(Titles) /\ Len(Kept(W, NotAdult)) <= Len(W)
    BY <1>2, KeptElements
  <1> HIDE DEF V
  <1>5. V \in Seq(Titles) /\ Len(V) \in Nat /\ Len(V) <= Len(W) /\ Len(W) <= ListSize + 1
    BY <1>1, <1>2, <1>3, <1>4
  <1>6. I \in Seq(Titles) /\ CutFrom(I, V, 0, ListSize)
    <2>1. Cut(V, 0 + 1, ListSize) \in Seq(Titles) /\ CutFrom(Cut(V, 0 + 1, ListSize), V, 0, ListSize)
      BY <1>1, <1>5, CutIs
    <2>2. 0 + 1 = 1
      OBVIOUS
    <2> QED
      BY <2>1, <2>2
  <1> HIDE DEF I
  <1>7. /\ Len(I) = IF ListSize < Len(V) THEN ListSize ELSE Len(V)
        /\ \A i \in 1..Len(I) : I[i] = V[i]
    BY <1>1, <1>5, <1>6 DEF CutFrom
  <1>8. Len(V) <= ListSize => I = V
    <2> SUFFICES ASSUME Len(V) <= ListSize PROVE I = V
      OBVIOUS
    <2>1. Len(I) = Len(V)
      BY <1>1, <1>5, <1>7
    <2> QED
      BY <1>5, <1>6, <1>7, <2>1
  <1>9. ASSUME Len(V) > ListSize
        PROVE  /\ p + 1 <= LastPage /\ n + ListSize <= Len(Orders[e])
               /\ Len(I) = ListSize
               /\ \A i \in 1..ListSize : I[i] = Orders[e][n + i] /\ (verified \/ ~Adult(I[i]))
    <2>1. Len(V) = Len(W) /\ Len(W) = ListSize + 1
      BY <1>1, <1>5, <1>9
    <2>2. n + ListSize + 1 <= Len(Orders[e])
      BY <1>1, <1>2, <2>1
    <2>3. (p + 1) * ListSize <= Len(Orders[e]) + ListSize - 1
      <3>1. (p + 1) * ListSize = p * ListSize + ListSize
        BY <1>1
      <3>2. p * ListSize \in Nat
        BY <1>1, <1>2
      <3> QED
        BY <1>1, <1>2, <2>2, <3>1, <3>2
    <2>4. p + 1 <= LastPage
      BY <2>3, PagesAre
    <2>5. V = W /\ (verified \/ \A i \in 1..Len(W) : W[i] \in NotAdult)
      BY <1>2, <1>3, <2>1, KeptWhole
    <2>6. Len(I) = ListSize
      BY <1>1, <1>5, <1>7, <1>9
    <2>7. \A i \in 1..ListSize : i \in 1..Len(W) /\ I[i] = W[i]
      BY <1>1, <1>7, <2>1, <2>5, <2>6
    <2>8. \A i \in 1..ListSize : I[i] = Orders[e][n + i] /\ (verified \/ ~Adult(I[i]))
      BY <1>2, <2>5, <2>7 DEF NotAdult
    <2> QED
      BY <1>1, <1>2, <2>2, <2>4, <2>6, <2>8
  <1>10. Len(I) \in Nat
    BY <1>6
  <1> QED
    BY <1>3, <1>5, <1>6, <1>8, <1>9, <1>10 DEF n, W, V, I

-----------------------------------------------------------------------------
(* The list pages: what the reader has seen *)

Req == [pc: {"look", "fetch", "lookAgain", "put", "answered"}, page: Pages,
        follows: BOOLEAN, edition: 0..edition]
HasPage(r) == r.pc \in {"put", "answered"} <=> r.edition # Uncached
Follows(s) == server[s] # Unoccupied /\ server[s].follows

\* the part of edition e before the reader's page, without adult games if he may not see
\* them; at the end what LinksLoseNothing says
SeenBefore(seen, p, e, verified) ==
    /\ Len(seen) = Before(p) /\ Len(seen) <= Len(Orders[e])
    /\ \A i \in 1..Len(seen) : seen[i] = Orders[e][i] /\ (verified \/ ~Adult(seen[i]))
BeforePage(r, e) == SeenBefore(r.seen, r.page, e, r.verified)
ToTheEnd(r, e) ==
    LET adults == {i \in DOMAIN Orders[e] : Adult(Orders[e][i])}
    IN /\ IsInjective(r.seen)
       /\ r.verified => r.seen = Orders[e]
       /\ ~r.verified =>
             /\ \A g \in ToSet(r.seen) : ~Adult(g)
             /\ \A i \in DOMAIN Orders[e] :
                   (\A a \in adults : i < a) => Orders[e][i] \in ToSet(r.seen)

ReaderOK(r) ==
    \A e \in DOMAIN Orders : r.editions \subseteq {e} =>
        IF r.pc = "ended" THEN ToTheEnd(r, e) ELSE BeforePage(r, e)

\* One request at most is the reader's, for the page he has come to.
ListPagesInv ==
    /\ ListPagesTypeOK
    /\ \A s \in Servers : Follows(s) => server[s].page = reader.page
    /\ \A s, t \in Servers : Follows(s) /\ Follows(t) => s = t
    /\ ReaderOK(reader)

LEMMA PageTypes ==
  ASSUME ListPagesInv
  PROVE  /\ edition \in DOMAIN Orders /\ edition \in Nat /\ edition >= 1
         /\ DOMAIN Orders = 1..Len(Orders) /\ Len(Orders) \in Nat
         /\ pageEntry \in [Pages -> 0..edition]
         /\ server \in [Servers -> {Unoccupied} \cup Req]
         /\ \A s \in Servers : server[s] # Unoccupied => server[s] \in Req /\ HasPage(server[s])
         /\ reader \in [page: Pages \ {Top}, verified: BOOLEAN, seen: Seq(Titles),
                        editions: SUBSET (1..edition), pc: {"ready", "waits", "ended"}]
         /\ reader.pc = "waits" <=> \E s \in Servers : Follows(s)
         /\ reader.page \in Pages /\ reader.page # Top
  <1>1. PICK o \in Seq(Seq(Titles)) : o = Orders
    BY ListPagesAssumption
  <1>2. DOMAIN Orders = 1..Len(Orders) /\ Len(Orders) \in Nat
    BY <1>1
  <1> QED
    BY <1>2 DEF ListPagesInv, ListPagesTypeOK, Req, HasPage, Follows

LEMMA ReqIsNotFree ==
  ASSUME NEW r \in Req
  PROVE  r # Unoccupied
  BY DEF Req, Unoccupied

LEMMA PagesHoldInitially == ListPagesInit => ListPagesInv
  <1> SUFFICES ASSUME ListPagesInit PROVE ListPagesInv
    OBVIOUS
  <1>1. /\ edition = 1 /\ pageEntry = [p \in Pages |-> Uncached]
        /\ server = [s \in Servers |-> Unoccupied]
        /\ reader \in [page: {1}, verified: BOOLEAN, seen: {<<>>}, editions: {{}}, pc: {"ready"}]
    BY DEF ListPagesInit
  <1>2. 1 \in DOMAIN Orders
    BY ListPagesAssumption
  <1>3. 1 \in Pages /\ 1 # Top
    BY PagesAre DEF Top
  <1>4. <<>> \in Seq(Titles)
    OBVIOUS
  <1>5. reader \in [page: Pages \ {Top}, verified: BOOLEAN, seen: Seq(Titles),
                    editions: SUBSET (1..edition), pc: {"ready", "waits", "ended"}]
    BY <1>1, <1>3, <1>4
  <1>6. \A s \in Servers : server[s] = Unoccupied /\ ~Follows(s)
    BY <1>1 DEF Follows
  <1>7. 0 \in 0..edition
    BY <1>1
  <1>8. ListPagesTypeOK
    BY <1>1, <1>2, <1>5, <1>6, <1>7 DEF ListPagesTypeOK, Uncached
  <1>9. ReaderOK(reader)
    <2> SUFFICES ASSUME NEW e \in DOMAIN Orders PROVE BeforePage(reader, e)
      BY <1>1 DEF ReaderOK
    <2>1. Len(reader.seen) = 0 /\ reader.page = 1
      BY <1>1
    <2>2. Before(1) = 0
      BY ListPagesAssumption DEF Before
    <2>3. Len(Orders[e]) \in Nat
      BY OrderIs
    <2> QED
      BY <2>1, <2>2, <2>3 DEF BeforePage, SeenBefore
  <1> QED
    BY <1>6, <1>8, <1>9 DEF ListPagesInv

\* a request goes on, or a visitor comes or is answered who does not follow the links
LEMMA RequestGoesOn ==
  ASSUME ListPagesInv, NEW s \in Servers, NEW r \in {Unoccupied} \cup Req,
         r # Unoccupied => HasPage(r),
         Turns(s, r), UNCHANGED <<edition, reader>>, pageEntry' \in [Pages -> 0..edition],
         \/ /\ server[s] # Unoccupied /\ r # Unoccupied
            /\ r.page = server[s].page /\ r.follows = server[s].follows
         \/ ~Follows(s) /\ (r # Unoccupied => ~r.follows)
  PROVE  ListPagesInv'
  <1>1. /\ server \in [Servers -> {Unoccupied} \cup Req]
        /\ \A t \in Servers : server[t] # Unoccupied => HasPage(server[t])
        /\ reader.pc = "waits" <=> \E t \in Servers : Follows(t)
    BY PageTypes
  <1>2. /\ server' \in [Servers -> {Unoccupied} \cup Req]
        /\ \A t \in Servers : server'[t] = IF t = s THEN r ELSE server[t]
    BY <1>1 DEF Turns
  <1>3. Req' = Req
    BY DEF Req
  <1>4. \A t \in Servers : server'[t] # Unoccupied => HasPage(server'[t])
    BY <1>1, <1>2
  <1>5. \A t \in Servers : /\ Follows(t)' <=> Follows(t)
                           /\ Follows(t) => server'[t].page = server[t].page
    BY <1>2 DEF Follows
  <1>6. ListPagesTypeOK'
    <2>1. \A t \in Servers : server'[t] # Unoccupied =>
             (server'[t].pc \in {"put", "answered"} <=> server'[t].edition # Uncached)
      BY <1>4 DEF HasPage
    <2>2. reader.pc = "waits" <=> \E t \in Servers : server'[t] # Unoccupied /\ server'[t].follows
      BY <1>1, <1>5 DEF Follows
    <2>3. server' \in [Servers -> {Unoccupied} \cup
             [pc: {"look", "fetch", "lookAgain", "put", "answered"}, page: Pages,
              follows: BOOLEAN, edition: 0..edition]]
      BY <1>2 DEF Req
    <2> QED
      BY <2>1, <2>2, <2>3 DEF ListPagesInv, ListPagesTypeOK
  <1> QED
    BY <1>5, <1>6 DEF ListPagesInv, ReaderOK, BeforePage, ToTheEnd

LEMMA VisitorAsks ==
  ASSUME ListPagesInv, NEW s \in Servers, NEW p \in Pages, AskPage(s, p)
  PROVE  ListPagesInv'
  <1> DEFINE r == [pc |-> "look", page |-> p, follows |-> FALSE, edition |-> Uncached]
  <1>1. Turns(s, r) /\ UNCHANGED <<edition, pageEntry, reader>> /\ server[s] = Unoccupied
    BY DEF AskPage, Request
  <1>2. r \in Req /\ HasPage(r) /\ ~r.follows
    BY PageTypes DEF Req, HasPage, Uncached
  <1>3. ~Follows(s)
    BY <1>1 DEF Follows
  <1> HIDE DEF r
  <1> QED
    BY <1>1, <1>2, <1>3, PageTypes, RequestGoesOn

LEMMA RequestLooks ==
  ASSUME ListPagesInv, NEW s \in Servers,
         LookPage(s) \/ FetchPage(s) \/ FetchRefused(s) \/ PutPage(s)
  PROVE  ListPagesInv'
  <1> DEFINE r == server[s]
  <1>1. r.pc \in {"look", "fetch", "put"}
    BY DEF LookPage, FetchPage, FetchRefused, PutPage
  <1>2. r \in Req /\ HasPage(r)
    BY <1>1, PageTypes DEF Unoccupied
  <1>3. r.page \in Pages /\ r.edition \in 0..edition /\ r.follows \in BOOLEAN
    BY <1>2 DEF Req
  <1>4. pageEntry[r.page] \in 0..edition /\ edition \in 0..edition /\ edition # Uncached
    BY <1>3, PageTypes DEF Uncached
  <1>5. /\ UNCHANGED <<edition, reader>>
        /\ pageEntry' \in [Pages -> 0..edition]
    <2>1. pageEntry \in [Pages -> 0..edition]
      BY PageTypes
    <2>2. CASE PutPage(s)
      <3>1. pageEntry' = [pageEntry EXCEPT ![r.page] = r.edition]
        BY <2>2 DEF PutPage
      <3> QED
        BY <1>3, <2>1, <2>2, <3>1 DEF PutPage
    <2>3. CASE ~PutPage(s)
      BY <2>1, <2>3 DEF LookPage, FetchPage, FetchRefused
    <2> QED
      BY <2>2, <2>3
  <1> HIDE DEF r
  <1>6. PICK n : /\ Turns(s, n) /\ n \in Req /\ HasPage(n)
                 /\ n.page = r.page /\ n.follows = r.follows
    <2>1. CASE LookPage(s) /\ pageEntry[r.page] # Uncached
      <3> DEFINE n == [r EXCEPT !.pc = "answered", !.edition = pageEntry[r.page]]
      <3>1. Turns(s, n)
        BY <2>1 DEF LookPage, r
      <3>2. /\ n \in Req /\ n.page = r.page /\ n.follows = r.follows
            /\ n.pc = "answered" /\ n.edition = pageEntry[r.page]
        BY <1>2, <1>4 DEF Req
      <3> HIDE DEF n
      <3>3. HasPage(n)
        BY <2>1, <3>2 DEF HasPage
      <3> QED
        BY <3>1, <3>2, <3>3
    <2>2. CASE LookPage(s) /\ pageEntry[r.page] = Uncached
      <3> DEFINE n == [r EXCEPT !.pc = "fetch"]
      <3>1. Turns(s, n) /\ r.pc = "look"
        BY <2>2 DEF LookPage, r
      <3>2. /\ n \in Req /\ n.page = r.page /\ n.follows = r.follows
            /\ n.pc = "fetch" /\ n.edition = r.edition
        BY <1>2 DEF Req
      <3> HIDE DEF n
      <3>3. HasPage(n)
        BY <1>2, <3>1, <3>2 DEF HasPage
      <3> QED
        BY <3>1, <3>2, <3>3
    <2>3. CASE FetchPage(s)
      <3> DEFINE n == [r EXCEPT !.pc = "put", !.edition = edition]
      <3>1. Turns(s, n)
        BY <2>3 DEF FetchPage, r
      <3>2. /\ n \in Req /\ n.page = r.page /\ n.follows = r.follows
            /\ n.pc = "put" /\ n.edition = edition
        BY <1>2, <1>4 DEF Req
      <3> HIDE DEF n
      <3>3. HasPage(n)
        BY <1>4, <3>2 DEF HasPage
      <3> QED
        BY <3>1, <3>2, <3>3
    <2>4. CASE FetchRefused(s)
      <3> DEFINE n == [r EXCEPT !.pc = "lookAgain"]
      <3>1. Turns(s, n) /\ r.pc = "fetch"
        BY <2>4 DEF FetchRefused, r
      <3>2. /\ n \in Req /\ n.page = r.page /\ n.follows = r.follows
            /\ n.pc = "lookAgain" /\ n.edition = r.edition
        BY <1>2 DEF Req
      <3> HIDE DEF n
      <3>3. HasPage(n)
        BY <1>2, <3>1, <3>2 DEF HasPage
      <3> QED
        BY <3>1, <3>2, <3>3
    <2>5. CASE PutPage(s)
      <3> DEFINE n == [r EXCEPT !.pc = "answered"]
      <3>1. Turns(s, n) /\ r.pc = "put"
        BY <2>5 DEF PutPage, r
      <3>2. /\ n \in Req /\ n.page = r.page /\ n.follows = r.follows
            /\ n.pc = "answered" /\ n.edition = r.edition
        BY <1>2 DEF Req
      <3> HIDE DEF n
      <3>3. HasPage(n)
        BY <1>2, <3>1, <3>2 DEF HasPage
      <3> QED
        BY <3>1, <3>2, <3>3
    <2> QED
      BY <2>1, <2>2, <2>3, <2>4, <2>5
  <1>7. server[s] # Unoccupied /\ n # Unoccupied
    BY <1>2, <1>6, ReqIsNotFree DEF r
  <1> QED
    BY <1>5, <1>6, <1>7, RequestGoesOn DEF r

\* The reader opens a page; his request is the only one of his.
LEMMA ReaderAsks ==
  ASSUME ListPagesInv, NEW s \in Servers, FollowLink(s)
  PROVE  ListPagesInv'
  <1> DEFINE r == [pc |-> "look", page |-> reader.page, follows |-> TRUE, edition |-> Uncached]
             rd == [reader EXCEPT !.pc = "waits"]
  <1>1. /\ Turns(s, r) /\ UNCHANGED <<edition, pageEntry>> /\ server[s] = Unoccupied
        /\ reader.pc = "ready" /\ reader' = rd
    BY DEF FollowLink, Request
  <1>2. r \in Req /\ HasPage(r) /\ r.follows /\ r.page = reader.page /\ r # Unoccupied
    <2>1. reader.page \in Pages /\ 0 \in 0..edition
      BY PageTypes
    <2>2. r \in Req
      BY <2>1 DEF Req, Uncached
    <2>3. HasPage(r) /\ r.follows /\ r.page = reader.page
      BY DEF HasPage
    <2> HIDE DEF r
    <2> QED
      BY <2>2, <2>3, ReqIsNotFree
  <1>3. /\ rd \in [page: Pages \ {Top}, verified: BOOLEAN, seen: Seq(Titles),
                   editions: SUBSET (1..edition), pc: {"ready", "waits", "ended"}]
        /\ rd.pc = "waits" /\ rd.page = reader.page /\ rd.verified = reader.verified
        /\ rd.seen = reader.seen /\ rd.editions = reader.editions
    BY PageTypes
  <1> HIDE DEF r, rd
  <1>4. /\ server' \in [Servers -> {Unoccupied} \cup Req]
        /\ \A t \in Servers : server'[t] = IF t = s THEN r ELSE server[t]
    BY <1>1, <1>2, PageTypes DEF Turns
  <1>5. \A t \in Servers : ~Follows(t)
    BY <1>1, PageTypes
  <1>6. \A t \in Servers : Follows(t)' <=> t = s
    BY <1>2, <1>4, <1>5 DEF Follows
  <1>7. \A t \in Servers : server'[t] # Unoccupied => HasPage(server'[t])
    BY <1>2, <1>4, PageTypes
  <1>8. ListPagesTypeOK'
    <2>1. \A t \in Servers : server'[t] # Unoccupied =>
             (server'[t].pc \in {"put", "answered"} <=> server'[t].edition # Uncached)
      BY <1>7 DEF HasPage
    <2>2. reader'.pc = "waits" <=> \E t \in Servers : server'[t] # Unoccupied /\ server'[t].follows
      BY <1>1, <1>3, <1>6 DEF Follows
    <2>3. server' \in [Servers -> {Unoccupied} \cup
             [pc: {"look", "fetch", "lookAgain", "put", "answered"}, page: Pages,
              follows: BOOLEAN, edition: 0..edition]]
      BY <1>4 DEF Req
    <2> QED
      BY <1>1, <1>3, <2>1, <2>2, <2>3 DEF ListPagesInv, ListPagesTypeOK
  <1>9. \A t \in Servers : Follows(t)' => server'[t].page = reader'.page
    BY <1>1, <1>2, <1>3, <1>4, <1>6
  <1>10. ReaderOK(rd)
    BY <1>1, <1>3 DEF ListPagesInv, ReaderOK, BeforePage
  <1> QED
    BY <1>1, <1>6, <1>8, <1>9, <1>10 DEF ListPagesInv, ReaderOK, BeforePage, ToTheEnd

\* The reader's request is over, failed or answered: he waits no more.
LEMMA RequestEnds ==
  ASSUME ListPagesInv, NEW s \in Servers, server[s] # Unoccupied, Turns(s, Unoccupied),
         UNCHANGED <<edition, pageEntry>>,
         NEW rd \in [page: Pages \ {Top}, verified: BOOLEAN, seen: Seq(Titles),
                     editions: SUBSET (1..edition), pc: {"ready", "ended"}],
         ReaderOK(rd),
         reader' = IF server[s].follows THEN rd ELSE reader
  PROVE  ListPagesInv'
  <1>1. server[s].follows \in BOOLEAN
    BY PageTypes DEF Req
  <1>2. /\ server' \in [Servers -> {Unoccupied} \cup Req]
        /\ \A t \in Servers : server'[t] = IF t = s THEN Unoccupied ELSE server[t]
    BY PageTypes DEF Turns
  <1>3. CASE ~server[s].follows
    <2>1. ~Follows(s) /\ reader' = reader
      BY <1>3 DEF Follows
    <2> QED
      BY <2>1, PageTypes, RequestGoesOn
  <1>4. CASE server[s].follows
    <2>1. Follows(s) /\ reader' = rd
      BY <1>4 DEF Follows
    <2>2. \A t \in Servers : ~Follows(t)'
      BY <1>2, <2>1 DEF ListPagesInv, Follows
    <2>3. \A t \in Servers : server'[t] # Unoccupied => HasPage(server'[t])
      BY <1>2, PageTypes
    <2>4. ListPagesTypeOK'
      <3>1. \A t \in Servers : server'[t] # Unoccupied =>
               (server'[t].pc \in {"put", "answered"} <=> server'[t].edition # Uncached)
        BY <2>3 DEF HasPage
      <3>2. reader'.pc = "waits" <=> \E t \in Servers : server'[t] # Unoccupied /\ server'[t].follows
        BY <2>1, <2>2 DEF Follows
      <3>3. server' \in [Servers -> {Unoccupied} \cup
               [pc: {"look", "fetch", "lookAgain", "put", "answered"}, page: Pages,
                follows: BOOLEAN, edition: 0..edition]]
        BY <1>2 DEF Req
      <3>4. reader' \in [page: Pages \ {Top}, verified: BOOLEAN, seen: Seq(Titles),
                         editions: SUBSET (1..edition), pc: {"ready", "waits", "ended"}]
        BY <2>1
      <3> QED
        BY <3>1, <3>2, <3>3, <3>4 DEF ListPagesInv, ListPagesTypeOK
    <2> QED
      BY <2>1, <2>2, <2>4 DEF ListPagesInv, ReaderOK, BeforePage, ToTheEnd
  <1> QED
    BY <1>1, <1>3, <1>4

LEMMA RequestFails ==
  ASSUME ListPagesInv, NEW s \in Servers, server[s] # Unoccupied, Fails(s),
         UNCHANGED <<edition, pageEntry>>
  PROVE  ListPagesInv'
  <1> DEFINE rd == [reader EXCEPT !.pc = "ready"]
  <1>1. CASE Follows(s)
    <2>1. reader.pc = "waits"
      BY <1>1, PageTypes
    <2>2. /\ rd \in [page: Pages \ {Top}, verified: BOOLEAN, seen: Seq(Titles),
                     editions: SUBSET (1..edition), pc: {"ready", "ended"}]
          /\ rd.pc = "ready" /\ rd.page = reader.page /\ rd.verified = reader.verified
          /\ rd.seen = reader.seen /\ rd.editions = reader.editions
      BY PageTypes
    <2>3. Turns(s, Unoccupied) /\ reader' = IF server[s].follows THEN rd ELSE reader
      BY DEF Fails
    <2> HIDE DEF rd
    <2>4. ReaderOK(rd)
      BY <2>1, <2>2 DEF ListPagesInv, ReaderOK, BeforePage
    <2> QED
      BY <2>2, <2>3, <2>4, RequestEnds
  <1>2. CASE ~Follows(s)
    <2>1. Turns(s, Unoccupied) /\ reader' = reader
      BY <1>2 DEF Fails, Follows
    <2> QED
      BY <1>2, <2>1, PageTypes, RequestGoesOn
  <1> QED
    BY <1>1, <1>2

LEMMA RequestLooksAgain ==
  ASSUME ListPagesInv, NEW s \in Servers, LookAgain(s)
  PROVE  ListPagesInv'
  <1> DEFINE r == server[s]
             n == [r EXCEPT !.pc = "answered", !.edition = pageEntry[r.page]]
  <1>1. r \in Req /\ r # Unoccupied /\ r.page \in Pages
    BY PageTypes DEF LookAgain, Unoccupied, Req
  <1>2. CASE pageEntry[r.page] = Uncached
    BY <1>1, <1>2, RequestFails DEF LookAgain
  <1>3. CASE pageEntry[r.page] # Uncached
    <2>1. Turns(s, n) /\ UNCHANGED <<edition, pageEntry, reader>>
      BY <1>3 DEF LookAgain
    <2>2. pageEntry[r.page] \in 0..edition
      BY <1>1, PageTypes
    <2>3. /\ n \in Req /\ n.page = r.page /\ n.follows = r.follows
          /\ n.pc = "answered" /\ n.edition = pageEntry[r.page]
      BY <1>1, <2>2 DEF Req
    <2> HIDE DEF n
    <2>4. HasPage(n) /\ n # Unoccupied
      BY <1>3, <2>3, ReqIsNotFree DEF HasPage
    <2> QED
      BY <1>1, <2>1, <2>3, <2>4, PageTypes, RequestGoesOn
  <1> QED
    BY <1>2, <1>3

\* IGDB's data changes: no page is of the new edition yet.
LEMMA EditionChanges ==
  ASSUME ListPagesInv, TableChanges
  PROVE  ListPagesInv'
  <1>1. edition' = edition + 1 /\ edition < Len(Orders) /\ UNCHANGED <<pageEntry, server, reader>>
    BY DEF TableChanges
  <1>2. edition' \in DOMAIN Orders /\ 0..edition \subseteq 0..edition' /\ 1..edition \subseteq 1..edition'
    BY <1>1, PageTypes
  <1>3. pageEntry' \in [Pages -> 0..edition']
    BY <1>1, <1>2, PageTypes
  <1>4. server' \in [Servers -> {Unoccupied} \cup
           [pc: {"look", "fetch", "lookAgain", "put", "answered"}, page: Pages,
            follows: BOOLEAN, edition: 0..edition']]
    <2>1. Req \subseteq [pc: {"look", "fetch", "lookAgain", "put", "answered"}, page: Pages,
                         follows: BOOLEAN, edition: 0..edition']
      BY <1>2 DEF Req
    <2> QED
      BY <1>1, <2>1, PageTypes
  <1>5. reader' \in [page: Pages \ {Top}, verified: BOOLEAN, seen: Seq(Titles),
                     editions: SUBSET (1..edition'), pc: {"ready", "waits", "ended"}]
    BY <1>1, <1>2, PageTypes
  <1>6. ListPagesTypeOK'
    BY <1>1, <1>2, <1>3, <1>4, <1>5 DEF ListPagesInv, ListPagesTypeOK
  <1> QED
    BY <1>1, <1>6 DEF ListPagesInv, Follows, ReaderOK, BeforePage, ToTheEnd

LEMMA CutPageExpires ==
  ASSUME ListPagesInv, NEW p \in Pages, PageExpires(p)
  PROVE  ListPagesInv'
  <1>1. /\ pageEntry' = [pageEntry EXCEPT ![p] = Uncached]
        /\ UNCHANGED <<edition, server, reader>>
    BY DEF PageExpires
  <1>2. pageEntry' \in [Pages -> 0..edition]
    <2>1. 0 \in 0..edition
      BY PageTypes
    <2> QED
      BY <1>1, <2>1, PageTypes DEF Uncached
  <1>3. ListPagesTypeOK'
    BY <1>1, <1>2 DEF ListPagesInv, ListPagesTypeOK
  <1> QED
    BY <1>1, <1>3 DEF ListPagesInv, Follows, ReaderOK, BeforePage, ToTheEnd

-----------------------------------------------------------------------------
(* The list pages: an answer reaches the reader *)

LEMMA SameList ==
  ASSUME NEW R, NEW a \in Seq(R), NEW b \in Seq(R), Len(a) = Len(b),
         \A i \in 1..Len(a) : a[i] = b[i]
  PROVE  a = b
  OBVIOUS

\* t is of two parts, of n and of m elements
OfTwoParts(t, n, a, m, b) ==
    /\ \A j \in 1..n : t[j] = a[j]
    /\ \A j \in 1..m : t[n + j] = b[j]
\* the elements of t are those of s from the k-th on, and may be seen
SeenFrom(t, n, s, k, verified) ==
    \A i \in 1..n : t[i] = s[k + i] /\ (verified \/ ~Adult(t[i]))

\* a full page follows what was seen
LEMMA OnePageMore ==
  ASSUME NEW n \in Nat, NEW size \in Nat, NEW verified, NEW s, NEW seen, NEW b, NEW t,
         SeenFrom(seen, n, s, 0, verified), SeenFrom(b, size, s, n, verified),
         OfTwoParts(t, n, seen, size, b)
  PROVE  SeenFrom(t, n + size, s, 0, verified)
  <1>0. /\ \A i \in 1..n : seen[i] = s[i] /\ (verified \/ ~Adult(seen[i]))
        /\ \A i \in 1..size : b[i] = s[n + i] /\ (verified \/ ~Adult(b[i]))
        /\ \A j \in 1..n : t[j] = seen[j]
        /\ \A j \in 1..size : t[n + j] = b[j]
    BY DEF SeenFrom, OfTwoParts
  <1> SUFFICES ASSUME NEW i \in 1..n + size
               PROVE  t[i] = s[i] /\ (verified \/ ~Adult(t[i]))
    BY DEF SeenFrom
  <1>1. CASE i \in 1..n
    BY <1>0, <1>1
  <1>2. CASE i \notin 1..n
    <2>1. i - n \in 1..size /\ n + (i - n) = i
      BY <1>2
    <2>2. PICK j \in 1..size : n + j = i
      BY <2>1
    <2>3. t[i] = b[j] /\ b[j] = s[i] /\ (verified \/ ~Adult(b[j]))
      BY <1>0, <2>2
    <2> QED
      BY <2>3
  <1> QED
    BY <1>1, <1>2

\* the part of s that IGDB returned
WindowFrom(w, lw, n, size, s, ls) ==
    /\ lw = IF n >= ls THEN 0 ELSE IF size + 1 < ls - n THEN size + 1 ELSE ls - n
    /\ \A i \in 1..lw : w[i] = s[n + i]
NoRepeats(s, ls) == \A i, j \in 1..ls : s[i] = s[j] => i = j

\* where what is shown stands in what IGDB returned
IsShownOf(f, lv, v, lw, w, verified) ==
    /\ f \in [1..lv -> 1..lw]
    /\ \A j, k \in 1..lv : j < k => f[j] < f[k]
    /\ \A k \in 1..lv : v[k] = w[f[k]] /\ (verified \/ ~Adult(v[k]))
    /\ \A i \in 1..lw : verified \/ ~Adult(w[i]) => \E k \in 1..lv : f[k] = i
    /\ verified => lv = lw /\ \A k \in 1..lv : f[k] = k
    /\ (\A i \in 1..lw : verified \/ ~Adult(w[i])) => lv = lw

LEMMA ShownMap ==
  ASSUME NEW w \in Seq(Titles), NEW verified \in BOOLEAN, NEW v \in Seq(Titles),
         v = IF verified THEN w ELSE Kept(w, NotAdult)
  PROVE  \E f : IsShownOf(f, Len(v), v, Len(w), w, verified)
  <1>1. CASE verified
    <2>1. v = w
      BY <1>1
    <2> DEFINE f == [k \in 1..Len(v) |-> k]
    <2>2. f \in [1..Len(v) -> 1..Len(w)] /\ \A k \in 1..Len(v) : f[k] = k
      BY <2>1
    <2> HIDE DEF f
    <2>3. IsShownOf(f, Len(v), v, Len(w), w, verified)
      BY <1>1, <2>1, <2>2 DEF IsShownOf
    <2> QED
      BY <2>3
  <1>2. CASE ~verified
    <2>1. v = Kept(w, NotAdult)
      BY <1>2
    <2>2. \E f \in [1..Len(Kept(w, NotAdult)) -> 1..Len(w)] :
            /\ \A j, k \in 1..Len(Kept(w, NotAdult)) : j < k => f[j] < f[k]
            /\ \A k \in 1..Len(Kept(w, NotAdult)) :
                  Kept(w, NotAdult)[k] = w[f[k]] /\ w[f[k]] \in NotAdult
            /\ \A i \in 1..Len(w) : w[i] \in NotAdult =>
                  \E k \in 1..Len(Kept(w, NotAdult)) : f[k] = i
      BY KeptMap
    <2>3. PICK f \in [1..Len(v) -> 1..Len(w)] :
            /\ \A j, k \in 1..Len(v) : j < k => f[j] < f[k]
            /\ \A k \in 1..Len(v) : v[k] = w[f[k]] /\ w[f[k]] \in NotAdult
            /\ \A i \in 1..Len(w) : w[i] \in NotAdult => \E k \in 1..Len(v) : f[k] = i
      BY <2>1, <2>2
    <2>4. \A i \in 1..Len(w) : w[i] \in NotAdult <=> ~Adult(w[i])
      BY DEF NotAdult
    <2>5. ASSUME \A i \in 1..Len(w) : ~Adult(w[i])
          PROVE  Len(v) = Len(w)
      <3>1. \A k \in 1..Len(w) : \E j \in 1..Len(v) : f[j] = k
        BY <2>3, <2>4, <2>5
      <3>2. f \in Surjection(1..Len(v), 1..Len(w))
        BY <3>1 DEF Surjection
      <3>3. /\ IsFiniteSet(1..Len(v)) /\ Cardinality(1..Len(v)) = Len(v)
            /\ IsFiniteSet(1..Len(w)) /\ Cardinality(1..Len(w)) = Len(w)
        <4>1. DOMAIN v = 1..Len(v) /\ DOMAIN w = 1..Len(w)
          OBVIOUS
        <4> QED
          BY <4>1, PlacesFinite
      <3>4. Len(w) <= Len(v)
        BY <3>2, <3>3, FS_Surjection
      <3>5. Len(v) <= Len(w)
        BY <2>1, KeptElements
      <3> QED
        BY <3>4, <3>5
    <2>6. \A k \in 1..Len(v) : ~Adult(v[k])
      BY <2>3 DEF NotAdult
    <2>7. IsShownOf(f, Len(v), v, Len(w), w, verified)
      BY <1>2, <2>3, <2>4, <2>5, <2>6 DEF IsShownOf
    <2> QED
      BY <2>7
  <1> QED
    BY <1>1, <1>2

\* what LinksLoseNothing says, of n elements t and ls elements s
LastResult(t, n, s, ls, verified) ==
    /\ \A a, b \in 1..n : t[a] = t[b] => a = b
    /\ verified => n = ls /\ \A i \in 1..ls : t[i] = s[i]
    /\ \A a \in 1..n : verified \/ ~Adult(t[a])
    /\ \A i \in 1..ls : (\A a \in 1..ls : Adult(s[a]) => i < a) => \E j \in 1..n : t[j] = s[i]

\* the last part follows what was seen
LEMMA LastPart ==
  ASSUME NEW ls \in Nat, NEW n \in Nat, n <= ls, NEW size \in Nat, size >= 1,
         NEW lw \in Nat, NEW lv \in Nat, lv <= size,
         NEW verified \in BOOLEAN, NEW s, NEW seen, NEW w, NEW v, NEW t, NEW f,
         NoRepeats(s, ls), WindowFrom(w, lw, n, size, s, ls),
         SeenFrom(seen, n, s, 0, verified),
         OfTwoParts(t, n, seen, lv, v), IsShownOf(f, lv, v, lw, w, verified)
  PROVE  LastResult(t, n + lv, s, ls, verified)
  <1>0. /\ \A i \in 1..n : seen[i] = s[i] /\ (verified \/ ~Adult(seen[i]))
        /\ \A j \in 1..n : t[j] = seen[j]
        /\ \A j \in 1..lv : t[n + j] = v[j]
        /\ \A i, j \in 1..ls : s[i] = s[j] => i = j
        /\ lw = IF n >= ls THEN 0 ELSE IF size + 1 < ls - n THEN size + 1 ELSE ls - n
        /\ \A i \in 1..lw : w[i] = s[n + i]
    BY DEF SeenFrom, OfTwoParts, NoRepeats, WindowFrom
  <1>0a. /\ f \in [1..lv -> 1..lw]
         /\ \A j, k \in 1..lv : j < k => f[j] < f[k]
         /\ \A k \in 1..lv : v[k] = w[f[k]] /\ (verified \/ ~Adult(v[k]))
         /\ \A i \in 1..lw : verified \/ ~Adult(w[i]) => \E k \in 1..lv : f[k] = i
         /\ verified => lv = lw /\ \A k \in 1..lv : f[k] = k
         /\ (\A i \in 1..lw : verified \/ ~Adult(w[i])) => lv = lw
    BY DEF IsShownOf
  <1> USE <1>0, <1>0a
  <1>1. n + lw <= ls
    OBVIOUS
  <1>2. ASSUME NEW k \in 1..lv
        PROVE  /\ n + f[k] \in 1..ls /\ n + f[k] > n
               /\ n + k \in 1..n + lv /\ t[n + k] = s[n + f[k]]
    <2>1. PICK m \in 1..lw : m = f[k]
      OBVIOUS
    <2>2. n + m \in 1..ls /\ n + m > n
      BY <1>1
    <2>3. v[k] = w[m] /\ w[m] = s[n + m]
      BY <2>1
    <2> QED
      BY <2>1, <2>2, <2>3
  <1>3. ASSUME NEW a \in 1..n + lv
        PROVE  a \in 1..n \/ \E k \in 1..lv : a = n + k
    <2>1. CASE a <= n
      BY <2>1
    <2>2. CASE a > n
      <3>1. a - n \in 1..lv /\ a = n + (a - n)
        BY <2>2
      <3> QED
        BY <3>1
    <2> QED
      BY <2>1, <2>2
  <1>4. \A a \in 1..n : a \in 1..ls /\ t[a] = s[a]
    OBVIOUS
  <1>5. ASSUME NEW a \in 1..n + lv, NEW b \in 1..n + lv, t[a] = t[b]
        PROVE  a = b
    <2>1. CASE a \in 1..n /\ b \in 1..n
      <3>1. a \in 1..ls /\ b \in 1..ls /\ s[a] = s[b]
        BY <1>4, <1>5, <2>1
      <3>2. \A i, j \in 1..ls : s[i] = s[j] => i = j
        BY <1>0
      <3> QED
        BY ONLY <3>1, <3>2
    <2>2. CASE a \in 1..n /\ b \notin 1..n
      <3>1. PICK k \in 1..lv : b = n + k
        BY <1>3, <2>2
      <3>2. PICK c \in 1..ls : c > n /\ t[b] = s[c]
        BY ONLY <1>2, <3>1
      <3>3. a = c
        BY <1>4, <1>5, <2>2, <3>2
      <3> QED
        BY <2>2, <3>2, <3>3
    <2>3. CASE a \notin 1..n /\ b \in 1..n
      <3>1. PICK k \in 1..lv : a = n + k
        BY <1>3, <2>3
      <3>2. PICK c \in 1..ls : c > n /\ t[a] = s[c]
        BY ONLY <1>2, <3>1
      <3>3. s[b] = s[c] /\ b \in 1..ls
        BY <1>4, <1>5, <2>3, <3>2
      <3>4. b = c
        BY <3>2, <3>3
      <3> QED
        BY <2>3, <3>2, <3>4
    <2>4. CASE a \notin 1..n /\ b \notin 1..n
      <3>1. PICK j \in 1..lv : a = n + j
        BY <1>3, <2>4
      <3>2. PICK k \in 1..lv : b = n + k
        BY <1>3, <2>4
      <3>3. n + f[j] = n + f[k]
        <4>1. PICK c \in 1..ls : c = n + f[j] /\ t[a] = s[c]
          BY ONLY <1>2, <3>1
        <4>2. PICK d \in 1..ls : d = n + f[k] /\ t[b] = s[d]
          BY ONLY <1>2, <3>2
        <4>2a. s[c] = s[d]
          BY <1>5, <4>1, <4>2
        <4>3. c = d
          BY ONLY <1>0, <4>2a
        <4> QED
          BY <4>1, <4>2, <4>3
      <3>4. PICK x \in 1..lw : x = f[j]
        OBVIOUS
      <3>5. PICK y \in 1..lw : y = f[k]
        OBVIOUS
      <3>6. x = y
        BY ONLY n \in Nat, lw \in Nat, <3>3, <3>4, <3>5
      <3>7. ~(j < k) /\ ~(k < j)
        <4>1. (j < k => f[j] < f[k]) /\ (k < j => f[k] < f[j])
          OBVIOUS
        <4> QED
          BY <3>4, <3>5, <3>6, <4>1
      <3> QED
        BY <3>1, <3>2, <3>7
    <2> QED
      BY <2>1, <2>2, <2>3, <2>4
  <1>6. ASSUME verified
        PROVE  n + lv = ls /\ \A i \in 1..ls : t[i] = s[i]
    <2>1. lv = lw /\ \A k \in 1..lv : f[k] = k
      BY <1>6
    <2>2. n + lv = ls
      BY <2>1
    <2>3. ASSUME NEW i \in 1..ls
          PROVE  t[i] = s[i]
      <3>1. CASE i \in 1..n
        BY <1>4, <3>1
      <3>2. CASE i \notin 1..n
        <4>1. PICK k \in 1..lv : i = n + k
          BY <1>3, <2>2, <3>2
        <4>2. f[k] = k
          BY <2>1
        <4>3. t[n + k] = s[n + f[k]]
          BY <1>2
        <4> QED
          BY <4>1, <4>2, <4>3
      <3> QED
        BY <3>1, <3>2
    <2> QED
      BY <2>2, <2>3
  <1>7. ASSUME NEW a \in 1..n + lv
        PROVE  verified \/ ~Adult(t[a])
    <2>1. CASE a \in 1..n
      <3>1. t[a] = seen[a] /\ (verified \/ ~Adult(seen[a]))
        BY ONLY <1>0, <2>1
      <3> QED
        BY <3>1
    <2>2. CASE a \notin 1..n
      <3>1. PICK k \in 1..lv : a = n + k
        BY <1>3, <2>2
      <3>2. t[a] = v[k] /\ (verified \/ ~Adult(v[k]))
        BY ONLY <1>0, <1>0a, <3>1
      <3> QED
        BY <3>2
    <2> QED
      BY <2>1, <2>2
  <1>8. ASSUME NEW i \in 1..ls, \A a \in 1..ls : Adult(s[a]) => i < a
        PROVE  \E j \in 1..n + lv : t[j] = s[i]
    <2>1. CASE i \in 1..n
      <3>1. i \in 1..n + lv
        BY <2>1
      <3> QED
        BY <1>4, <2>1, <3>1
    <2>2. CASE i > n /\ i <= n + lw
      <3>1. PICK j \in 1..lw : i = n + j
        <4>1. i - n \in 1..lw /\ i = n + (i - n)
          BY <2>2
        <4> QED
          BY <4>1
      <3>2. w[j] = s[i]
        BY <3>1
      <3>3. ~Adult(w[j])
        BY <1>8, <3>2
      <3>4. PICK k \in 1..lv : f[k] = j
        BY <3>3
      <3> QED
        BY <1>2, <3>1, <3>4
    <2>3. CASE i > n + lw
      <3>1. lw = size + 1
        BY <2>3
      <3>2. PICK j \in 1..lw : Adult(w[j])
        <4>1. lv # lw
          BY <3>1
        <4> QED
          BY <4>1
      <3>3. n + j \in 1..ls /\ n + j < i
        BY <1>1, <2>3
      <3>4. Adult(s[n + j])
        BY <3>2
      <3> QED
        BY <1>8, <3>3, <3>4
    <2> QED
      BY <2>1, <2>2, <2>3
  <1> QED
    BY <1>5, <1>6, <1>7, <1>8 DEF LastResult

\* a full page: the reader has seen one page more
LEMMA PageIsRead ==
  ASSUME NEW e \in DOMAIN Orders, NEW p \in Nat, p >= 1, NEW verified \in BOOLEAN,
         NEW seen \in Seq(Titles),
         SeenBefore(seen, p, e, verified),
         NEW I \in Seq(Titles), I = Cut(Visible(Window(e, p), verified), 1, ListSize),
         NEW t \in Seq(Titles), t = seen \o I,
         Len(Visible(Window(e, p), verified)) > ListSize
  PROVE  SeenBefore(t, p + 1, e, verified)
  <1>0. /\ Len(seen) = Before(p) /\ Len(seen) <= Len(Orders[e])
        /\ \A i \in 1..Len(seen) : seen[i] = Orders[e][i] /\ (verified \/ ~Adult(seen[i]))
    BY DEF SeenBefore
  <1> USE <1>0
  <1>1. PICK n \in Nat : n = Before(p)
    BY WindowIs
  <1>2. PICK ls \in Nat : ls = Len(Orders[e])
    BY OrderIs
  <1>3. PICK size \in Nat : size = ListSize
    BY ListPagesAssumption
  <1>4. /\ Len(I) = size /\ n + size <= ls
        /\ \A i \in 1..size : I[i] = Orders[e][n + i] /\ (verified \/ ~Adult(I[i]))
    <2>1. /\ Len(I) = ListSize /\ Before(p) + ListSize <= Len(Orders[e])
          /\ \A i \in 1..ListSize : I[i] = Orders[e][Before(p) + i] /\ (verified \/ ~Adult(I[i]))
      BY PageShown
    <2> QED
      BY <1>1, <1>2, <1>3, <2>1
  <1>5. Before(p + 1) = n + size
    BY <1>1, <1>3, WindowIs DEF Before
  <1>6. PICK b \in Seq(Titles) : b = I
    OBVIOUS
  <1>7. Len(t) = n + size /\ OfTwoParts(t, n, seen, size, b)
    <2>1. /\ Len(seen \o b) = Len(seen) + Len(b)
          /\ \A j \in 1..Len(seen) : (seen \o b)[j] = seen[j]
          /\ \A j \in 1..Len(b) : (seen \o b)[Len(seen) + j] = b[j]
      BY ONLY Joined, seen \in Seq(Titles), b \in Seq(Titles)
    <2> QED
      BY <1>1, <1>4, <1>6, <2>1 DEF OfTwoParts
  <1>8. SeenFrom(seen, n, Orders[e], 0, verified) /\ SeenFrom(b, size, Orders[e], n, verified)
    BY <1>1, <1>4, <1>6 DEF SeenFrom
  <1>9. SeenFrom(t, n + size, Orders[e], 0, verified)
    BY <1>7, <1>8, OnePageMore
  <1>10. Len(t) = Before(p + 1) /\ Len(t) <= Len(Orders[e])
    BY <1>2, <1>4, <1>5, <1>7
  <1>11. \A i \in 1..Len(t) : t[i] = Orders[e][i] /\ (verified \/ ~Adult(t[i]))
    <2>1. \A i \in 1..Len(t) : 0 + i = i
      OBVIOUS
    <2> QED
      BY ONLY <1>7, <1>9, <2>1 DEF SeenFrom
  <1> QED
    BY ONLY <1>10, <1>11 DEF SeenBefore

\* the last page: the links end
LEMMA LastPageIsRead ==
  ASSUME NEW e \in DOMAIN Orders, NEW p \in Nat, p >= 1, NEW verified \in BOOLEAN,
         NEW seen \in Seq(Titles),
         SeenBefore(seen, p, e, verified),
         NEW I \in Seq(Titles), I = Cut(Visible(Window(e, p), verified), 1, ListSize),
         NEW t \in Seq(Titles), t = seen \o I,
         Len(Visible(Window(e, p), verified)) <= ListSize
  PROVE  LET adults == {i \in DOMAIN Orders[e] : Adult(Orders[e][i])}
         IN  /\ IsInjective(t)
             /\ verified => t = Orders[e]
             /\ ~verified =>
                   /\ \A g \in ToSet(t) : ~Adult(g)
                   /\ \A i \in DOMAIN Orders[e] :
                         (\A a \in adults : i < a) => Orders[e][i] \in ToSet(t)
  <1>0. /\ Len(seen) = Before(p) /\ Len(seen) <= Len(Orders[e])
        /\ \A i \in 1..Len(seen) : seen[i] = Orders[e][i] /\ (verified \/ ~Adult(seen[i]))
    BY DEF SeenBefore
  <1> USE <1>0
  <1>1. PICK n \in Nat : n = Before(p)
    BY WindowIs
  <1>2. PICK s \in Seq(Titles) : s = Orders[e]
    BY OrderIs
  <1>3. PICK ls \in Nat : ls = Len(s)
    OBVIOUS
  <1>4. PICK size \in Nat : size = ListSize /\ size >= 1
    BY ListPagesAssumption
  <1>5. PICK w \in Seq(Titles) : w = Window(e, p)
    BY WindowIs
  <1>6. PICK lw \in Nat : lw = Len(w)
    OBVIOUS
  <1>7. lw = IF n >= ls THEN 0 ELSE IF size + 1 < ls - n THEN size + 1 ELSE ls - n
    BY <1>1, <1>2, <1>3, <1>4, <1>5, <1>6, WindowIs
  <1>8. \A i \in 1..lw : w[i] = s[n + i]
    BY <1>1, <1>2, <1>5, <1>6, WindowIs
  <1>9. /\ I = Visible(w, verified) /\ I = IF verified THEN w ELSE Kept(w, NotAdult)
        /\ Len(I) <= size
    <2>1. LET V == Visible(Window(e, p), verified)
          IN  /\ V = IF verified THEN Window(e, p) ELSE Kept(Window(e, p), NotAdult)
              /\ Len(V) <= ListSize => Cut(V, 1, ListSize) = V
      BY ONLY e \in DOMAIN Orders, p \in Nat, p >= 1, verified \in BOOLEAN, PageShown
    <2>2. I = Visible(Window(e, p), verified) /\ Len(I) <= ListSize
      BY ONLY I = Cut(Visible(Window(e, p), verified), 1, ListSize),
              Len(Visible(Window(e, p), verified)) <= ListSize, <2>1
    <2> QED
      BY ONLY <1>4, <1>5, <2>1, <2>2
  <1>10. PICK lv \in Nat : lv = Len(I)
    OBVIOUS
  <1>11. PICK f : IsShownOf(f, lv, I, lw, w, verified)
    BY <1>6, <1>9, <1>10, ShownMap
  <1>12. Len(t) = n + lv /\ OfTwoParts(t, n, seen, lv, I)
    <2>1. /\ Len(seen \o I) = Len(seen) + Len(I)
          /\ \A j \in 1..Len(seen) : (seen \o I)[j] = seen[j]
          /\ \A j \in 1..Len(I) : (seen \o I)[Len(seen) + j] = I[j]
      BY ONLY Joined, seen \in Seq(Titles), I \in Seq(Titles)
    <2> QED
      BY <1>1, <1>10, <2>1 DEF OfTwoParts
  <1>13. n <= ls /\ lv <= size
    BY <1>1, <1>2, <1>3, <1>9, <1>10
  <1>13a. SeenFrom(seen, n, s, 0, verified)
    <2>1. \A i \in 1..n : 0 + i = i
      OBVIOUS
    <2>2. \A i \in 1..n : seen[i] = s[i] /\ (verified \/ ~Adult(seen[i]))
      BY <1>1, <1>2
    <2> QED
      BY <2>1, <2>2 DEF SeenFrom
  <1>14. NoRepeats(s, ls)
    BY <1>2, <1>3, OrderIs DEF IsInjective, NoRepeats
  <1>14a. WindowFrom(w, lw, n, size, s, ls)
    BY <1>7, <1>8 DEF WindowFrom
  <1>15. LastResult(t, n + lv, s, ls, verified)
    BY ONLY verified \in BOOLEAN, ls \in Nat, n \in Nat, size \in Nat, lw \in Nat, lv \in Nat,
            <1>4, <1>11, <1>12, <1>13, <1>13a, <1>14, <1>14a, LastPart
  <1>16. DOMAIN t = 1..n + lv /\ DOMAIN s = 1..ls
    BY <1>3, <1>12
  <1>17. IsInjective(t)
    <2>1. \A a, b \in 1..n + lv : t[a] = t[b] => a = b
      BY <1>15 DEF LastResult
    <2>2. DOMAIN t = 1..n + lv
      BY <1>16
    <2> QED
      BY ONLY <2>1, <2>2 DEF IsInjective
  <1>18. ASSUME verified PROVE t = s
    <2>1. Len(t) = Len(s) /\ \A i \in 1..Len(t) : t[i] = s[i]
      BY <1>3, <1>12, <1>15, <1>18 DEF LastResult
    <2> QED
      BY <2>1, SameList
  <1>19. ~verified => \A g \in ToSet(t) : ~Adult(g)
    <2>1. \A a \in 1..n + lv : verified \/ ~Adult(t[a])
      BY <1>15 DEF LastResult
    <2>2. \A g \in ToSet(t) : \E a \in 1..n + lv : g = t[a]
      BY <1>16 DEF ToSet
    <2> QED
      BY <2>1, <2>2
  <1>20. ASSUME NEW i \in DOMAIN s, \A a \in {x \in DOMAIN s : Adult(s[x])} : i < a
         PROVE  s[i] \in ToSet(t)
    <2>1. i \in 1..ls /\ \A a \in 1..ls : Adult(s[a]) => i < a
      BY <1>16, <1>20
    <2>2. PICK j \in 1..n + lv : t[j] = s[i]
      BY <1>15, <2>1 DEF LastResult
    <2> QED
      BY <1>16, <2>2 DEF ToSet
  <1> QED
    BY <1>2, <1>17, <1>18, <1>19, <1>20

\* what the reader has when an answer r to a request of his has arrived
Answered(r) ==
    [reader EXCEPT !.seen = @ \o Items(r), !.editions = @ \cup {r.edition},
                   !.page = IF HasNext(r) THEN @ + 1 ELSE @,
                   !.pc = IF HasNext(r) THEN "ready" ELSE "ended"]

LEMMA AnswerFollows ==
  ASSUME ListPagesInv, NEW s \in Servers, server[s].pc = "answered", Follows(s)
  PROVE  LET r == server[s]
             rd == Answered(r)
         IN  /\ rd \in [page: Pages \ {Top}, verified: BOOLEAN, seen: Seq(Titles),
                        editions: SUBSET (1..edition), pc: {"ready", "ended"}]
             /\ ReaderOK(rd)
  <1>1. PICK r \in Req : r = server[s] /\ HasPage(r) /\ r.pc = "answered" /\ r.page = reader.page
    BY PageTypes DEF ListPagesInv, Follows
  <1>2. PICK d \in DOMAIN Orders : d = r.edition /\ d \in 1..edition
    <2>1. r.edition \in 0..edition /\ r.edition # 0
      BY <1>1 DEF Req, HasPage, Uncached
    <2>2. r.edition \in 1..edition /\ edition \in 1..Len(Orders)
      BY <2>1, PageTypes
    <2> QED
      BY <2>2, PageTypes
  <1>3. PICK p \in Nat : p = reader.page /\ p >= 1 /\ p \in Pages
    BY PageTypes, PagesAre DEF Top
  <1>4. PICK verified \in BOOLEAN : verified = reader.verified
    BY PageTypes
  <1>5. PICK seen \in Seq(Titles) : seen = reader.seen
    BY PageTypes
  <1>6. PICK I \in Seq(Titles) : I = Cut(Visible(Window(d, p), verified), 1, ListSize) /\ I = Items(r)
    BY <1>1, <1>2, <1>3, <1>4, PageShown DEF Items, ShownTo
  <1>7. PICK t \in Seq(Titles) : t = seen \o I
    BY Joined
  <1>8. PICK eds \in SUBSET (1..edition) : eds = reader.editions \cup {d}
    BY <1>2, PageTypes
  <1>9. /\ HasNext(r) <=> Len(Visible(Window(d, p), verified)) > ListSize
        /\ ListSize \in Nat /\ Len(Visible(Window(d, p), verified)) \in Nat
    <2>1. Len(Visible(Window(d, p), verified)) \in Nat
      BY PageShown
    <2> QED
      BY <1>1, <1>2, <1>3, <1>4, <2>1, ListPagesAssumption DEF HasNext, ShownTo
  <1>10. PICK q \in Pages \ {Top} : q = IF HasNext(r) THEN p + 1 ELSE p
    <2>1. CASE HasNext(r)
      <3>0. Len(Visible(Window(d, p), verified)) > ListSize
        BY <1>9, <2>1
      <3>1. p + 1 <= LastPage
        BY ONLY d \in DOMAIN Orders, p \in Nat, <1>3, verified \in BOOLEAN, <3>0, PageShown
      <3> QED
        BY <1>3, <2>1, <3>1, PagesAre DEF Top
    <2>2. CASE ~HasNext(r)
      BY <1>3, <2>2 DEF Top
    <2> QED
      BY <2>1, <2>2
  <1>11. PICK rd : /\ rd = Answered(r) /\ rd.page = q /\ rd.verified = verified /\ rd.seen = t
                   /\ rd.editions = eds /\ rd.pc = IF HasNext(r) THEN "ready" ELSE "ended"
                   /\ rd \in [page: Pages \ {Top}, verified: BOOLEAN, seen: Seq(Titles),
                              editions: SUBSET (1..edition), pc: {"ready", "ended"}]
    <2>1. reader \in [page: Pages \ {Top}, verified: BOOLEAN, seen: Seq(Titles),
                      editions: SUBSET (1..edition), pc: {"ready", "waits", "ended"}]
      BY PageTypes
    <2> DEFINE rd == Answered(r)
    <2>2. rd = [reader EXCEPT !.seen = t, !.editions = eds, !.page = q,
                              !.pc = IF HasNext(r) THEN "ready" ELSE "ended"]
      BY <1>2, <1>3, <1>5, <1>6, <1>7, <1>8, <1>10 DEF Answered
    <2> HIDE DEF rd
    <2>3. /\ rd.page = q /\ rd.verified = verified /\ rd.seen = t /\ rd.editions = eds
          /\ rd.pc = IF HasNext(r) THEN "ready" ELSE "ended"
      BY <1>4, <2>1, <2>2
    <2>4. rd \in [page: Pages \ {Top}, verified: BOOLEAN, seen: Seq(Titles),
                  editions: SUBSET (1..edition), pc: {"ready", "ended"}]
      BY <2>1, <2>2
    <2> QED
      BY <2>3, <2>4 DEF rd
  <1>12. ASSUME NEW e \in DOMAIN Orders, eds \subseteq {e}
         PROVE  e = d /\ SeenBefore(seen, p, d, verified)
    <2>1. e = d /\ reader.editions \subseteq {e}
      BY <1>8, <1>12
    <2>2. reader.pc = "waits"
      BY PageTypes
    <2>3. BeforePage(reader, d)
      BY <2>1, <2>2 DEF ListPagesInv, ReaderOK
    <2> QED
      BY <1>3, <1>4, <1>5, <2>1, <2>3 DEF BeforePage
  <1>13. ReaderOK(rd)
    <2> SUFFICES ASSUME NEW e \in DOMAIN Orders, rd.editions \subseteq {e}
                 PROVE  IF rd.pc = "ended" THEN ToTheEnd(rd, e) ELSE BeforePage(rd, e)
      BY DEF ReaderOK
    <2>1. e = d /\ SeenBefore(seen, p, d, verified)
      BY <1>11, <1>12
    <2>2. CASE HasNext(r)
      <3>0. Len(Visible(Window(d, p), verified)) > ListSize
        BY <1>9, <2>2
      <3>1. SeenBefore(t, p + 1, d, verified)
        BY ONLY d \in DOMAIN Orders, p \in Nat, verified \in BOOLEAN, seen \in Seq(Titles),
                I \in Seq(Titles), t \in Seq(Titles), <1>3, <1>6, <1>7, <2>1, <3>0, PageIsRead
      <3>2. rd.pc = "ready" /\ rd.page = p + 1
        BY <1>10, <1>11, <2>2
      <3>3. BeforePage(rd, e)
        BY <1>11, <2>1, <3>1, <3>2 DEF BeforePage
      <3> QED
        BY <3>2, <3>3
    <2>3. CASE ~HasNext(r)
      <3>1. Len(Visible(Window(d, p), verified)) <= ListSize
        BY <1>9, <2>3
      <3>2. LET adults == {i \in DOMAIN Orders[d] : Adult(Orders[d][i])}
            IN  /\ IsInjective(t)
                /\ verified => t = Orders[d]
                /\ ~verified =>
                      /\ \A g \in ToSet(t) : ~Adult(g)
                      /\ \A i \in DOMAIN Orders[d] :
                            (\A a \in adults : i < a) => Orders[d][i] \in ToSet(t)
        BY ONLY d \in DOMAIN Orders, p \in Nat, verified \in BOOLEAN, seen \in Seq(Titles),
                I \in Seq(Titles), t \in Seq(Titles), <1>3, <1>6, <1>7, <2>1, <3>1, LastPageIsRead
      <3>3. rd.pc = "ended"
        BY <1>11, <2>3
      <3>4. ToTheEnd(rd, e)
        BY <1>11, <2>1, <3>2 DEF ToTheEnd
      <3> QED
        BY <3>3, <3>4
    <2> QED
      BY <2>2, <2>3
  <1> QED
    BY <1>1, <1>11, <1>13

LEMMA AnswerArrives ==
  ASSUME ListPagesInv, NEW s \in Servers, Delivered(s)
  PROVE  ListPagesInv'
  <1>1. /\ server[s].pc = "answered" /\ Turns(s, Unoccupied) /\ UNCHANGED <<edition, pageEntry>>
        /\ reader' = IF ~server[s].follows THEN reader ELSE Answered(server[s])
    BY DEF Delivered, Answered
  <1>2. server[s] # Unoccupied
    BY <1>1 DEF Unoccupied
  <1>3. CASE Follows(s)
    <2>1. PICK rd \in [page: Pages \ {Top}, verified: BOOLEAN, seen: Seq(Titles),
                       editions: SUBSET (1..edition), pc: {"ready", "ended"}] :
             rd = Answered(server[s]) /\ ReaderOK(rd)
      BY <1>1, <1>3, AnswerFollows
    <2>2. reader' = IF server[s].follows THEN rd ELSE reader
      BY <1>1, <2>1
    <2> QED
      BY <1>1, <1>2, <2>1, <2>2, RequestEnds
  <1>4. CASE ~Follows(s)
    <2>1. reader' = reader
      BY <1>1, <1>2, <1>4 DEF Follows
    <2> QED
      BY <1>1, <1>4, <2>1, PageTypes, RequestGoesOn
  <1> QED
    BY <1>3, <1>4

LEMMA PagesArePreserved ==
  ASSUME ListPagesInv, [ListPagesNext]_listVars
  PROVE  ListPagesInv'
  <1>1. CASE TableChanges
    BY <1>1, EditionChanges
  <1>2. CASE \E p \in Pages : PageExpires(p)
    BY <1>2, CutPageExpires
  <1>3. CASE \E s \in Servers : \E p \in Pages : AskPage(s, p)
    BY <1>3, VisitorAsks
  <1>4. CASE \E s \in Servers : FollowLink(s)
    BY <1>4, ReaderAsks
  <1>5. CASE \E s \in Servers : LookPage(s) \/ FetchPage(s) \/ FetchRefused(s) \/ PutPage(s)
    BY <1>5, RequestLooks
  <1>6. CASE \E s \in Servers : FetchRaises(s)
    <2>1. PICK s \in Servers : FetchRaises(s)
      BY <1>6
    <2>2. server[s] # Unoccupied /\ Fails(s) /\ UNCHANGED <<edition, pageEntry>>
      BY <2>1 DEF FetchRaises, Unoccupied
    <2> QED
      BY <2>2, RequestFails
  <1>7. CASE \E s \in Servers : LookAgain(s)
    BY <1>7, RequestLooksAgain
  <1>8. CASE \E s \in Servers : Delivered(s)
    BY <1>8, AnswerArrives
  <1>9. CASE UNCHANGED listVars
    <2>1. UNCHANGED <<edition, pageEntry, server, reader>>
      BY <1>9 DEF listVars
    <2>2. ListPagesTypeOK'
      BY <2>1 DEF ListPagesInv, ListPagesTypeOK
    <2> QED
      BY <2>1, <2>2 DEF ListPagesInv, Follows, ReaderOK, BeforePage, ToTheEnd
  <1> QED
    BY <1>1, <1>2, <1>3, <1>4, <1>5, <1>6, <1>7, <1>8, <1>9 DEF ListPagesNext

\* Workers, cached pages and the reader keep their types: no entry or answer is of an
\* edition IGDB has not published, a worker has a page exactly when it is to be stored or
\* delivered, and the reader waits exactly while a worker serves him (search_games).
THEOREM ListPagesTypes == ListPagesSpec => []ListPagesTypeOK
  <1>1. ListPagesInit => ListPagesInv
    BY PagesHoldInitially
  <1>2. ListPagesInv /\ [ListPagesNext]_listVars => ListPagesInv'
    BY PagesArePreserved
  <1>3. ListPagesInv => ListPagesTypeOK
    BY DEF ListPagesInv
  <1> QED
    BY <1>1, <1>2, <1>3, PTL DEF ListPagesSpec

\* Whoever follows the next links of the game list to their end, through pages of one
\* edition, sees no game twice; a verified adult sees all of them in their order, another
\* visitor what comes before the first adult game (GameListView, filter_adult_games).
THEOREM PagesLoseNothing == ListPagesSpec => []LinksLoseNothing
  <1>1. ListPagesInit => ListPagesInv
    BY PagesHoldInitially
  <1>2. ListPagesInv /\ [ListPagesNext]_listVars => ListPagesInv'
    BY PagesArePreserved
  <1>3. ListPagesInv => LinksLoseNothing
    BY DEF ListPagesInv, ReaderOK, ToTheEnd, LinksLoseNothing
  <1> QED
    BY <1>1, <1>2, <1>3, PTL DEF ListPagesSpec

-----------------------------------------------------------------------------
(* The four parts together *)

\* A behaviour of the parts together is a behaviour of each of them.
THEOREM CatalogueParts ==
  CatalogueSpec => NameKoSpec /\ IgdbClientSpec /\ GameEntriesSpec /\ ListPagesSpec
  <1>1. CatalogueInit => NameKoInit /\ IgdbClientInit /\ GameEntriesInit /\ ListPagesInit
    BY DEF CatalogueInit
  <1>2. [CatalogueNext]_catalogueVars =>
           /\ [NameKoNext]_<<nameVars, nameHistory>> /\ [IgdbClientNext]_clientVars
           /\ [GameEntriesNext]_gameVars /\ [ListPagesNext]_listVars
    BY DEF CatalogueNext, catalogueVars
  <1> QED
    BY <1>1, <1>2, PTL DEF CatalogueSpec, NameKoSpec, IgdbClientSpec, GameEntriesSpec, ListPagesSpec

\* Names, client, entries and pages stay well typed, for any numbers of games, tasks,
\* rows, titles, workers and pages.
THEOREM CatalogueTypes == CatalogueSpec => []CatalogueTypeOK
  <1>1. NameKoTypeOK /\ IgdbClientTypeOK /\ GameEntriesTypeOK /\ ListPagesTypeOK
           => CatalogueTypeOK
    BY DEF CatalogueTypeOK
  <1> QED
    BY <1>1, CatalogueParts, NameTypes, ClientTypes, GameEntriesTypes, ListPagesTypes, PTL
=============================================================================
