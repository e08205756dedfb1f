------------------------- MODULE DatasetRevisionProofs -------------------------
(* Type correctness of DatasetRevision, that the revision of an import     *)
(* batch stays what its workbook said, that a term and a number name one   *)
(* revision for good, and that only late writers reach a frozen revision   *)
(* or the room.                                                            *)
EXTENDS DatasetRevision, TLAPS

-----------------------------------------------------------------------------
(* Types. *)

LEMMA SheetsHashType ==
  ASSUME NEW w \in Workbooks
  PROVE  SheetsHash(w) \in Hashes
BY DatasetAssumption DEF SheetsHash, Hashes

LEMMA BatchType ==
  ASSUME NEW b \in Batches
  PROVE  b[1] \in Terms /\ b[2] \in Workbooks
BY DatasetAssumption

LEMMA FormsOfType ==
  ASSUME TypeOK, NEW i \in Present
  PROVE  FormsOf(i) \subseteq Forms
BY DatasetAssumption DEF TypeOK, Present, FormsOf, Forms

LEMMA InitTypeOK == Init => TypeOK
BY DatasetAssumption DEF Init, TypeOK

LEMMA NextTypeOK ==
  ASSUME TypeOK, [Next]_vars
  PROVE  TypeOK'
<1> USE DatasetAssumption
<1>1. ASSUME NEW q \in Requests, NEW w \in Work \cup {None}, Becomes(q, w),
             UNCHANGED <<revisionVars, batchVars, room>>
      PROVE  TypeOK'
  BY <1>1 DEF TypeOK, Becomes, revisionVars, batchVars
<1>2. ASSUME NEW q \in Requests, Abandon(q) PROVE TypeOK'
  BY <1>1, <1>2 DEF Abandon, Ends
<1>3. ASSUME NEW q \in Requests, NEW b \in Batches, PreviewRead(q, b)
      PROVE  TypeOK'
  <2>1. [op |-> "preview", batch |-> b, fresh |-> staged[b] = "ABSENT"] \in Work
    BY DEF Work, Previewing
  <2> QED
    BY <1>1, <1>3, <2>1 DEF PreviewRead
<1>4. ASSUME NEW q \in Requests, PreviewWrite(q) PROVE TypeOK'
  BY <1>4 DEF PreviewWrite, TypeOK, Ends, Becomes, revisionVars
<1>5. ASSUME NEW q \in Requests, NEW b \in Batches, ImportRead(q, b)
      PROVE  TypeOK'
  <2>1. PICK n \in {m + 1 : m \in {0} \cup Numbers(b[1])} :
          Becomes(q, [op |-> "import", batch |-> b, number |-> n,
                      at |-> "numbered"])
    BY <1>5 DEF ImportRead
  <2>2. n \in Nat \ {0}
    BY DEF Numbers, TypeOK, Present
  <2>3. [op |-> "import", batch |-> b, number |-> n, at |-> "numbered"] \in Work
    BY <2>2 DEF Work, Importing
  <2> QED
    BY <1>1, <1>5, <2>1, <2>3 DEF ImportRead
<1>6. ASSUME NEW q \in Requests, ImportInsert(q) PROVE TypeOK'
  <2>1. [request[q] EXCEPT !.at = "inserted"] \in Importing
    BY <1>6 DEF ImportInsert, Doing, Importing
  <2>2. Becomes(q, [request[q] EXCEPT !.at = "inserted"])
    BY <1>6 DEF ImportInsert, Becomes
  <2> QED
    BY <1>1, <1>6, <2>1, <2>2 DEF ImportInsert, Work
<1>7. ASSUME NEW q \in Requests, ImportCatalog(q) PROVE TypeOK'
  <2>1. [request[q] EXCEPT !.at = "cataloged"] \in Importing
    BY <1>7 DEF ImportCatalog, Doing, Importing
  <2>2. Becomes(q, [request[q] EXCEPT !.at = "cataloged"])
    BY <1>7 DEF ImportCatalog, Becomes
  <2> QED
    BY <1>1, <1>7, <2>1, <2>2 DEF ImportCatalog, Work
<1>8. ASSUME NEW q \in Requests, ImportCommit(q) PROVE TypeOK'
  <2> DEFINE b == request[q].batch
  <2>1. b \in Batches /\ request[q].number \in Nat
    BY <1>8 DEF ImportCommit, Doing, Importing
  <2>2. b[1] \in Terms /\ b[2] \in Workbooks
    BY <2>1, BatchType
  <2>3. SheetsHash(b[2]) \in Hashes
    BY <2>2, SheetsHashType
  <2>4. Sheets[b[2]].rows \in RowData /\ Sheets[b[2]].room \in RoomData
    BY <2>2 DEF Contents
  <2>5. PICK i \in Revisions \ Present :
          /\ status' = [status EXCEPT ![i] = "COMMITTED"]
          /\ term' = [term EXCEPT ![i] = b[1]]
          /\ number' = [number EXCEPT ![i] = request[q].number]
          /\ hash' = [hash EXCEPT ![i] = SheetsHash(b[2])]
          /\ rows' = [rows EXCEPT ![i] = Sheets[b[2]].rows]
          /\ keys' = [keys EXCEPT ![i] = <<b[1], request[q].number>>]
          /\ made' = [made EXCEPT ![b] = i]
    BY <1>8 DEF ImportCommit
  <2>6. /\ staged' = [staged EXCEPT ![b] = "COMMITTED"]
        /\ room' = Sheets[b[2]].room
        /\ request' = [request EXCEPT ![q] = None]
        /\ terms' = terms
    BY <1>8 DEF ImportCommit, Ends, Becomes
  <2> QED
    BY <2>1, <2>2, <2>3, <2>4, <2>5, <2>6 DEF TypeOK, Statuses
<1>9. ASSUME NEW i \in Revisions, NEW j \in Revisions, NEW t \in Terms,
             Clone(i, j, t)
      PROVE  TypeOK'
  BY <1>9 DEF Clone, TypeOK, Statuses, batchVars
<1>10. ASSUME NEW q \in Requests, NEW i \in Revisions, FinalizeBuild(q, i)
       PROVE  TypeOK'
  <2> DEFINE w == [op |-> "finalize", revision |-> i,
                   content |-> [rows |-> rows[i], room |-> room]]
  <2>1. rows[i] \in RowData /\ room \in RoomData
    BY <1>10 DEF FinalizeBuild, TypeOK
  <2>2. w \in Work
    BY <2>1 DEF Work, Finalizing, Contents
  <2> QED
    BY <1>1, <1>10, <2>2 DEF FinalizeBuild
<1>11. ASSUME NEW q \in Requests, FinalizeCommit(q) PROVE TypeOK'
  <2>1. /\ request[q].revision \in Revisions
        /\ [of |-> "problem", content |-> request[q].content] \in Hashes
    BY <1>11 DEF FinalizeCommit, Doing, Finalizing, Hashes
  <2> QED
    BY <1>11, <2>1
    DEF FinalizeCommit, TypeOK, Ends, Becomes, Statuses, batchVars
<1>12. ASSUME NEW q \in Requests, NEW i \in Revisions, NEW r \in RowData,
              EditCheck(q, i, r)
       PROVE  TypeOK'
  <2>1. [op |-> "edit", revision |-> i, rows |-> r] \in Work
    BY DEF Work, Editing
  <2> QED
    BY <1>1, <1>12, <2>1 DEF EditCheck
<1>13. ASSUME NEW q \in Requests, EditWrite(q) PROVE TypeOK'
  <2>1. request[q].revision \in Revisions /\ request[q].rows \in RowData
    BY <1>13 DEF EditWrite, Doing, Editing
  <2> QED
    BY <1>13, <2>1 DEF EditWrite, TypeOK, Ends, Becomes, batchVars
<1>14. ASSUME NEW q \in Requests, NEW r \in RoomData, FurnishCheck(q, r)
       PROVE  TypeOK'
  <2>1. [op |-> "furnish", room |-> r] \in Work
    BY DEF Work, Furnishing
  <2> QED
    BY <1>1, <1>14, <2>1 DEF FurnishCheck
<1>15. ASSUME NEW q \in Requests, FurnishWrite(q) PROVE TypeOK'
  <2>1. request[q].room \in RoomData
    BY <1>15 DEF FurnishWrite, Doing, Furnishing
  <2> QED
    BY <1>15, <2>1
    DEF FurnishWrite, TypeOK, Ends, Becomes, batchVars, revisionVars
<1>16. ASSUME NEW q \in Requests, NEW i \in Present, NEW w \in FormsOf(i),
              FormCheck(q, w)
       PROVE  TypeOK'
  <2>1. w \in Work
    BY FormsOfType DEF Work
  <2> QED
    BY <1>1, <1>16, <2>1 DEF FormCheck
<1>17. ASSUME NEW q \in Requests, FormWrite(q) PROVE TypeOK'
  <2> DEFINE w == request[q]
  <2>1. /\ w.revision \in Revisions /\ w.status \in Statuses
        /\ w.term \in Terms /\ w.number \in Nat
        /\ w.hash \in Hashes \cup {None}
    BY <1>17 DEF FormWrite, Doing, Forms
  <2> QED
    BY <1>17, <2>1 DEF FormWrite, TypeOK, Ends, Becomes, batchVars
<1>18. CASE UNCHANGED vars
  BY <1>18 DEF TypeOK, vars
<1> QED
  BY <1>2, <1>3, <1>4, <1>5, <1>6, <1>7, <1>8, <1>9, <1>10, <1>11, <1>12,
     <1>13, <1>14, <1>15, <1>16, <1>17, <1>18
  DEF Next, Import, Administer

\* Every variable keeps its type: in particular every request in flight holds
\* work of one of the six kinds, on rows that can exist.
THEOREM TypeCorrect == Spec => []TypeOK
<1>1. Init => TypeOK
  BY InitTypeOK
<1>2. TypeOK /\ [Next]_vars => TypeOK'
  BY NextTypeOK
<1> QED
  BY <1>1, <1>2, PTL DEF Spec

-----------------------------------------------------------------------------
(* What workbooks became. *)

\* Work that will not disturb the revision of an import: an edit or a
\* finalization of another revision, or a form that keeps what it is.
Harmless(w) ==
  /\ w \in Editing \cup Finalizing \cup Forms => w.revision \in Present
  /\ \A b \in Batches : made[b] # None =>
       /\ w \in Editing \cup Finalizing => w.revision # made[b]
       /\ w \in Forms /\ w.revision = made[b] =>
            /\ w.status \in Immutable
            /\ w.term = b[1] /\ w.hash = SheetsHash(b[2])

WorkIsHarmless == \A q \in Requests : ~Idle(q) => Harmless(request[q])

ImportInv == TypeOK /\ ImportsAreKept /\ WorkIsHarmless

LEMMA MadeIsPresent ==
  ASSUME TypeOK, ImportsAreKept, NEW b \in Batches, made[b] # None
  PROVE  made[b] \in Present /\ made[b] \in Revisions
BY DEF TypeOK, ImportsAreKept, Present, Immutable

\* A step that only takes up harmless work, or ends some.
LEMMA TakingWork ==
  ASSUME ImportInv, TypeOK', NEW q \in Requests, NEW w \in Work \cup {None},
         Becomes(q, w), w # None => Harmless(w),
         UNCHANGED <<revisionVars, made>>
  PROVE  ImportInv'
<1>1. ImportsAreKept'
  BY DEF ImportInv, ImportsAreKept, revisionVars
<1>2. ASSUME NEW p \in Requests, ~Idle(p)'
      PROVE  Harmless(request[p])'
  <2>1. request'[p] = (IF p = q THEN w ELSE request[p])
    BY DEF Becomes, ImportInv, TypeOK
  <2>2. Harmless(request'[p])
    BY <1>2, <2>1 DEF ImportInv, WorkIsHarmless, Idle
  <2> QED
    BY <2>2 DEF Harmless, Present, revisionVars
<1> QED
  BY <1>1, <1>2 DEF ImportInv, WorkIsHarmless

LEMMA ImportCommitKeeps ==
  ASSUME ImportInv, TypeOK', NEW q \in Requests, ImportCommit(q)
  PROVE  ImportInv'
<1> DEFINE c == request[q].batch
<1>1. c \in Batches /\ c[1] \in Terms /\ c[2] \in Workbooks
  BY BatchType DEF ImportCommit, Doing, Importing
<1>2. PICK i \in Revisions \ Present :
        /\ status' = [status EXCEPT ![i] = "COMMITTED"]
        /\ term' = [term EXCEPT ![i] = c[1]]
        /\ hash' = [hash EXCEPT ![i] = SheetsHash(c[2])]
        /\ rows' = [rows EXCEPT ![i] = Sheets[c[2]].rows]
        /\ made' = [made EXCEPT ![c] = i]
  BY DEF ImportCommit
<1>3. Present' = Present \cup {i}
  BY <1>2 DEF Present, ImportInv, TypeOK, Statuses
<1>4. ASSUME NEW b \in Batches, made'[b] # None
      PROVE  /\ status'[made'[b]] \in Immutable
             /\ term'[made'[b]] = b[1]
             /\ hash'[made'[b]] = SheetsHash(b[2])
             /\ rows'[made'[b]] = Sheets[b[2]].rows
  <2>1. CASE b = c
    BY <1>1, <1>2, <2>1 DEF ImportInv, TypeOK, Immutable
  <2>2. CASE b # c
    <3>1. made'[b] = made[b] /\ made[b] # None
      BY <1>1, <1>2, <1>4, <2>2 DEF ImportInv, TypeOK
    <3>2. made[b] # i /\ made[b] \in Revisions
      BY <1>2, <3>1, MadeIsPresent DEF ImportInv
    <3> QED
      BY <1>2, <3>1, <3>2 DEF ImportInv, TypeOK, ImportsAreKept
  <2> QED
    BY <2>1, <2>2
<1>5. ImportsAreKept'
  <2>1. \A w : SheetsHash(w)' = SheetsHash(w)
    BY DEF SheetsHash
  <2> QED
    BY <1>4, <2>1 DEF ImportsAreKept
<1>6. ASSUME NEW p \in Requests, ~Idle(p)'
      PROVE  Harmless(request[p])'
  <2>1. request'[p] = request[p] /\ ~Idle(p)
    BY <1>6 DEF ImportCommit, Ends, Becomes, Idle, ImportInv, TypeOK
  <2>2. Harmless(request[p])
    BY <2>1 DEF ImportInv, WorkIsHarmless
  <2>3. ASSUME NEW b \in Batches, made'[b] # None
        PROVE  made'[b] # i => made'[b] = made[b] /\ made[b] # None
    BY <1>1, <1>2, <2>3 DEF ImportInv, TypeOK
  <2>4. request[p] \in Editing \cup Finalizing \cup Forms =>
          request[p].revision \in Present /\ request[p].revision # i
    BY <1>2, <2>2 DEF Harmless
  <2> QED
    BY <1>3, <2>1, <2>2, <2>3, <2>4 DEF Harmless, SheetsHash
<1> QED
  BY <1>5, <1>6 DEF ImportInv, WorkIsHarmless

\* A step that touches only revisions no import made, and no request but the
\* one that ends.
LEMMA TouchingOthers ==
  ASSUME ImportInv, TypeOK', UNCHANGED made, Present \subseteq Present',
         NEW i \in Revisions, \A b \in Batches : made[b] # None => made[b] # i,
         \A k \in Revisions \ {i} :
           /\ status'[k] = status[k] /\ term'[k] = term[k]
           /\ hash'[k] = hash[k] /\ rows'[k] = rows[k],
         \A p \in Requests : request'[p] \in {None, request[p]}
  PROVE  ImportInv'
<1>1. ASSUME NEW b \in Batches, made[b] # None
      PROVE  made[b] \in Revisions \ {i}
  BY <1>1, MadeIsPresent DEF ImportInv
<1>2. ImportsAreKept'
  BY <1>1 DEF ImportInv, ImportsAreKept, SheetsHash
<1>3. ASSUME NEW p \in Requests, ~Idle(p)'
      PROVE  Harmless(request[p])'
  <2>1. request'[p] = request[p] /\ Harmless(request[p])
    BY <1>3 DEF Idle, ImportInv, WorkIsHarmless
  <2> QED
    BY <2>1 DEF Harmless, SheetsHash
<1> QED
  BY <1>2, <1>3 DEF ImportInv, WorkIsHarmless

LEMMA NextImportInv ==
  ASSUME ImportInv, [Next]_vars
  PROVE  ImportInv'
<1>1. TypeOK /\ TypeOK'
  BY NextTypeOK DEF ImportInv
<1>2. ASSUME NEW q \in Requests, NEW w \in Work \cup {None}, Becomes(q, w),
             UNCHANGED <<revisionVars, batchVars>>,
             w \notin Editing \cup Finalizing \cup Forms
      PROVE  ImportInv'
  <2>1. Harmless(w)
    BY <1>2 DEF Harmless
  <2> QED
    BY <1>1, <1>2, <2>1, TakingWork DEF batchVars
<1>3. ASSUME NEW q \in Requests, Abandon(q) PROVE ImportInv'
  BY <1>1, <1>3, TakingWork DEF Abandon, Ends, batchVars
<1>4. ASSUME NEW q \in Requests, NEW b \in Batches, PreviewRead(q, b)
      PROVE  ImportInv'
  <2> DEFINE w == [op |-> "preview", batch |-> b, fresh |-> staged[b] = "ABSENT"]
  <2>1. w \in Work /\ w \notin Editing \cup Finalizing \cup Forms
    BY DEF Work, Previewing, Editing, Finalizing, Forms
  <2> QED
    BY <1>2, <1>4, <2>1 DEF PreviewRead
<1>5. ASSUME NEW q \in Requests, PreviewWrite(q) PROVE ImportInv'
  BY <1>1, <1>5, TakingWork DEF PreviewWrite, Ends
<1>6. ASSUME NEW q \in Requests, NEW b \in Batches, ImportRead(q, b)
      PROVE  ImportInv'
  <2>1. PICK w : /\ Becomes(q, w)
                 /\ w.op = "import"
                 /\ UNCHANGED <<revisionVars, batchVars, room>>
    <3>1. PICK n \in {m + 1 : m \in {0} \cup Numbers(b[1])} :
            Becomes(q, [op |-> "import", batch |-> b, number |-> n,
                        at |-> "numbered"])
      BY <1>6 DEF ImportRead
    <3> QED
      BY <1>6, <3>1 DEF ImportRead
  <2>2. w = request'[q]
    BY <1>1, <2>1 DEF Becomes, TypeOK
  <2>3. w \in Work \cup {None}
    BY <1>1, <2>2 DEF TypeOK
  <2>4. w \notin Editing \cup Finalizing \cup Forms
    BY <2>1 DEF Editing, Finalizing, Forms
  <2> QED
    BY <1>2, <2>1, <2>3, <2>4
<1>7. ASSUME NEW q \in Requests, NEW a, Doing(q, Importing),
             request' = [request EXCEPT ![q].at = a],
             UNCHANGED <<revisionVars, batchVars>>
      PROVE  ImportInv'
  <2> DEFINE w == [request[q] EXCEPT !.at = a]
  <2>1. Becomes(q, w) /\ w = request'[q]
    BY <1>1, <1>7 DEF Becomes, TypeOK
  <2>2. w \in Work \cup {None}
    BY <1>1, <2>1 DEF TypeOK
  <2>3. w.op = "import"
    BY <1>7 DEF Doing, Importing
  <2>4. w \notin Editing \cup Finalizing \cup Forms
    BY <2>3 DEF Editing, Finalizing, Forms
  <2> QED
    BY <1>2, <1>7, <2>1, <2>2, <2>4
<1>8. ASSUME NEW q \in Requests, ImportInsert(q) \/ ImportCatalog(q)
      PROVE  ImportInv'
  BY <1>7, <1>8 DEF ImportInsert, ImportCatalog
<1>9. ASSUME NEW q \in Requests, ImportCommit(q) PROVE ImportInv'
  BY <1>1, <1>9, ImportCommitKeeps
<1>10. ASSUME NEW i \in Revisions, NEW j \in Revisions, NEW t \in Terms,
              Clone(i, j, t)
       PROVE  ImportInv'
  <2>1. \A b \in Batches : made[b] # None => made[b] # j
    BY <1>10, MadeIsPresent DEF Clone, ImportInv
  <2>2. Present \subseteq Present'
    BY <1>1, <1>10 DEF Clone, Present, TypeOK
  <2>3. \A k \in Revisions \ {j} :
           /\ status'[k] = status[k] /\ term'[k] = term[k]
           /\ hash'[k] = hash[k] /\ rows'[k] = rows[k]
    BY <1>1, <1>10 DEF Clone, TypeOK
  <2> QED
    BY <1>1, <1>10, <2>1, <2>2, <2>3, TouchingOthers DEF Clone, batchVars
<1>11. ASSUME NEW q \in Requests, NEW i \in Revisions, FinalizeBuild(q, i)
       PROVE  ImportInv'
  <2> DEFINE w == [op |-> "finalize", revision |-> i,
                   content |-> [rows |-> rows[i], room |-> room]]
  <2>1. Becomes(q, w) /\ w = request'[q]
    BY <1>1, <1>11 DEF FinalizeBuild, Becomes, TypeOK
  <2>2. w \in Work \cup {None} /\ w \notin Forms
    BY <1>1, <2>1 DEF TypeOK, Forms
  <2>3. i \in Present /\ \A b \in Batches : made[b] # None => made[b] # i
    BY <1>11 DEF FinalizeBuild, Present, ImportInv, ImportsAreKept, Immutable
  <2>4. Harmless(w)
    BY <2>2, <2>3 DEF Harmless
  <2> QED
    BY <1>1, <1>11, <2>1, <2>2, <2>4, TakingWork DEF FinalizeBuild, batchVars
<1>12. ASSUME NEW q \in Requests, Doing(q, Editing) \/ Doing(q, Finalizing)
       PROVE  /\ request[q].revision \in Revisions \cap Present
              /\ \A b \in Batches : made[b] # None => made[b] # request[q].revision
  BY <1>12
  DEF Doing, Idle, ImportInv, WorkIsHarmless, Harmless, Editing, Finalizing
<1>13. ASSUME NEW q \in Requests, FinalizeCommit(q) PROVE ImportInv'
  <2> DEFINE i == request[q].revision
  <2>1. /\ i \in Revisions \cap Present
        /\ \A b \in Batches : made[b] # None => made[b] # i
    BY <1>12, <1>13 DEF FinalizeCommit
  <2>2. Present \subseteq Present'
    BY <1>1, <1>13 DEF FinalizeCommit, Present, TypeOK
  <2>3. \A k \in Revisions \ {i} :
           /\ status'[k] = status[k] /\ term'[k] = term[k]
           /\ hash'[k] = hash[k] /\ rows'[k] = rows[k]
    BY <1>1, <1>13 DEF FinalizeCommit, TypeOK
  <2>4. \A p \in Requests : request'[p] \in {None, request[p]}
    BY <1>1, <1>13 DEF FinalizeCommit, Ends, Becomes, TypeOK
  <2> QED
    BY <1>1, <1>13, <2>1, <2>2, <2>3, <2>4, TouchingOthers
    DEF FinalizeCommit, batchVars
<1>14. ASSUME NEW q \in Requests, NEW i \in Revisions, NEW r \in RowData,
              EditCheck(q, i, r)
       PROVE  ImportInv'
  <2> DEFINE w == [op |-> "edit", revision |-> i, rows |-> r]
  <2>1. Becomes(q, w) /\ w = request'[q]
    BY <1>1, <1>14 DEF EditCheck, Becomes, TypeOK
  <2>2. w \in Work \cup {None} /\ w \notin Forms
    BY <1>1, <2>1 DEF TypeOK, Forms
  <2>3. i \in Present /\ \A b \in Batches : made[b] # None => made[b] # i
    BY <1>14 DEF EditCheck, RowMutable, ImportInv, ImportsAreKept
  <2>4. Harmless(w)
    BY <2>2, <2>3 DEF Harmless
  <2> QED
    BY <1>1, <1>14, <2>1, <2>2, <2>4, TakingWork DEF EditCheck, batchVars
<1>15. ASSUME NEW q \in Requests, EditWrite(q) PROVE ImportInv'
  <2> DEFINE i == request[q].revision
  <2>1. /\ i \in Revisions
        /\ \A b \in Batches : made[b] # None => made[b] # i
    BY <1>12, <1>15 DEF EditWrite
  <2>2. \A k \in Revisions \ {i} : rows'[k] = rows[k]
    BY <1>1, <1>15 DEF EditWrite, TypeOK
  <2>3. \A p \in Requests : request'[p] \in {None, request[p]}
    BY <1>1, <1>15 DEF EditWrite, Ends, Becomes, TypeOK
  <2>4. Present' = Present
    BY <1>15 DEF EditWrite, Present
  <2> QED
    BY <1>1, <1>15, <2>1, <2>2, <2>3, <2>4, TouchingOthers
    DEF EditWrite, batchVars
<1>16. ASSUME NEW q \in Requests, NEW r \in RoomData, FurnishCheck(q, r)
       PROVE  ImportInv'
  <2> DEFINE w == [op |-> "furnish", room |-> r]
  <2>1. w \in Work /\ w \notin Editing \cup Finalizing \cup Forms
    BY DEF Work, Furnishing, Editing, Finalizing, Forms
  <2> QED
    BY <1>2, <1>16, <2>1 DEF FurnishCheck
<1>17. ASSUME NEW q \in Requests, FurnishWrite(q) PROVE ImportInv'
  BY <1>1, <1>17, TakingWork DEF FurnishWrite, Ends, batchVars
<1>18. ASSUME NEW q \in Requests, NEW i \in Present, NEW w \in FormsOf(i),
              FormCheck(q, w)
       PROVE  ImportInv'
  <2>1. w \in Forms /\ w.revision = i
    BY <1>1, FormsOfType DEF FormsOf
  <2>2. w \in Work /\ w \notin Editing \cup Finalizing
    BY <2>1 DEF Work, Forms, Editing, Finalizing
  <2>3. ASSUME NEW b \in Batches, made[b] # None, i = made[b]
        PROVE  /\ w.status \in Immutable
               /\ w.term = b[1] /\ w.hash = SheetsHash(b[2])
    BY <1>18, <2>1, <2>3
    DEF FormCheck, Savable, ImportInv, ImportsAreKept, Immutable
  <2>4. Harmless(w)
    BY <2>1, <2>2, <2>3 DEF Harmless
  <2> QED
    BY <1>1, <1>18, <2>2, <2>4, TakingWork DEF FormCheck, batchVars
<1>19. ASSUME NEW q \in Requests, FormWrite(q) PROVE ImportInv'
  <2> DEFINE f == request[q]
  <2>1. f \in Forms /\ f.revision \in Revisions \cap Present /\ Harmless(f)
    BY <1>19
    DEF FormWrite, Doing, Idle, ImportInv, WorkIsHarmless, Harmless, Forms
  <2>2. /\ status' = [status EXCEPT ![f.revision] = f.status]
        /\ term' = [term EXCEPT ![f.revision] = f.term]
        /\ hash' = [hash EXCEPT ![f.revision] = f.hash]
        /\ f.status \in Statuses
        /\ UNCHANGED <<rows, made>>
    BY <1>19, <2>1 DEF FormWrite, Forms, batchVars
  <2>3. Present' = Present
    BY <1>1, <2>1, <2>2 DEF Present, TypeOK, Statuses
  <2>4. ASSUME NEW b \in Batches, made[b] # None
        PROVE  /\ status'[made[b]] \in Immutable
               /\ term'[made[b]] = b[1]
               /\ hash'[made[b]] = SheetsHash(b[2])
               /\ rows'[made[b]] = Sheets[b[2]].rows
    <3>1. made[b] \in Revisions
      BY <2>4, MadeIsPresent DEF ImportInv
    <3>2. made[b] = f.revision =>
            f.status \in Immutable /\ f.term = b[1] /\ f.hash = SheetsHash(b[2])
      BY <2>1, <2>4 DEF Harmless
    <3> QED
      BY <1>1, <2>2, <2>4, <3>1, <3>2 DEF ImportInv, ImportsAreKept, TypeOK
  <2>5. ImportsAreKept'
    BY <2>2, <2>4 DEF ImportsAreKept, SheetsHash
  <2>6. ASSUME NEW p \in Requests, ~Idle(p)'
        PROVE  Harmless(request[p])'
    <3>1. request'[p] = request[p] /\ ~Idle(p)
      BY <1>1, <1>19, <2>6 DEF FormWrite, Ends, Becomes, Idle, TypeOK
    <3> QED
      BY <2>2, <2>3, <3>1 DEF ImportInv, WorkIsHarmless, Harmless, SheetsHash
  <2> QED
    BY <1>1, <2>5, <2>6 DEF ImportInv, WorkIsHarmless
<1>20. CASE UNCHANGED vars
  BY <1>20 DEF vars, ImportInv, TypeOK, ImportsAreKept, WorkIsHarmless, Harmless,
               Present, Idle, SheetsHash
<1> QED
  BY <1>3, <1>4, <1>5, <1>6, <1>8, <1>9, <1>10, <1>11, <1>13, <1>14, <1>15,
     <1>16, <1>17, <1>18, <1>19, <1>20
  DEF Next, Import, Administer

\* The revision of an import is immutable, in its term, hashed from the
\* workbook and holding its rows: no preview, form, edit, clone or finalization
\* that is under way, however stale its check, takes that away.
THEOREM ImportsStayKept == Spec => []ImportsAreKept
<1>1. Init => ImportInv
  BY InitTypeOK DEF Init, ImportInv, ImportsAreKept, WorkIsHarmless, Idle
<1>2. ImportInv /\ [Next]_vars => ImportInv'
  BY NextImportInv
<1>3. ImportInv => ImportsAreKept
  BY DEF ImportInv
<1> QED
  BY <1>1, <1>2, <1>3, PTL DEF Spec

-----------------------------------------------------------------------------
(* Revision numbers. *)

Claims(q) == Doing(q, Importing) /\ request[q].at # "numbered"

\* A term and a number name one revision, of a term that exists; a revision that
\* an import keyed is immutable and still has the number of its keys.
NumbersDiffer ==
  \A i, j \in Present : term[i] = term[j] /\ number[i] = number[j] => i = j
TermsExist ==
  /\ \A i \in Present : term[i] \in terms
  /\ \A b \in Batches : staged[b] # "ABSENT" => b[1] \in terms
KeysHold ==
  \A i \in Present : keys[i] # None =>
    status[i] \in Immutable /\ keys[i] = <<term[i], number[i]>>

\* Work on terms that exist; a number that an import has inserted is free, and a
\* form of a keyed revision keeps it immutable, in its term and with its number.
Numbered(w) ==
  /\ w \in Previewing \cup Importing => w.batch[1] \in terms
  /\ w \in Importing /\ w.at # "numbered" => w.number \notin Numbers(w.batch[1])
  /\ w \in Forms =>
       /\ w.term \in terms
       /\ keys[w.revision] # None =>
            w.status \in Immutable /\ keys[w.revision] = <<w.term, w.number>>
WorkIsNumbered == \A q \in Requests : ~Idle(q) => Numbered(request[q])

\* Two imports never hold the same number of a term.
ClaimsDiffer ==
  \A p, q \in Requests :
    p # q /\ Claims(p) /\ Claims(q) /\ request[p].batch[1] = request[q].batch[1]
      => request[p].number # request[q].number

NumberInv ==
  NumbersDiffer /\ TermsExist /\ KeysHold /\ WorkIsNumbered /\ ClaimsDiffer

\* A step that adds and numbers no revision, and takes up work that is numbered.
LEMMA KeepingNumbers ==
  ASSUME TypeOK, TypeOK', NumberInv,
         Present' = Present, UNCHANGED <<term, number, keys, terms>>,
         \A i \in Present : status'[i] \in {status[i]} \cup Immutable,
         \A b \in Batches : staged'[b] # "ABSENT" => b[1] \in terms,
         NEW q \in Requests, NEW w \in Work \cup {None}, Becomes(q, w),
         w # None => Numbered(w),
         w \in Importing /\ w.at # "numbered" =>
           \A p \in Requests \ {q} :
             Claims(p) /\ request[p].batch[1] = w.batch[1] =>
               request[p].number # w.number
  PROVE  NumberInv'
<1>1. \A t : Numbers(t)' = Numbers(t)
  BY DEF Numbers
<1>2. \A v : Numbered(v)' = Numbered(v)
  BY <1>1 DEF Numbered
<1>3. /\ \A p \in Requests \ {q} : request'[p] = request[p]
      /\ request'[q] = w
  BY DEF Becomes, TypeOK
<1>4. NumbersDiffer' /\ TermsExist'
  BY DEF NumberInv, NumbersDiffer, TermsExist
<1>5. KeysHold'
  BY DEF NumberInv, KeysHold
<1>6. WorkIsNumbered'
  <2>1. ASSUME NEW p \in Requests, request'[p] # None
        PROVE  Numbered(request'[p])
    BY <1>3, <2>1 DEF NumberInv, WorkIsNumbered, Idle
  <2>2. \A p \in Requests : Numbered(request[p])' = Numbered(request'[p])
    BY <1>1 DEF Numbered
  <2> QED
    BY <2>1, <2>2 DEF WorkIsNumbered, Idle
<1>7. ClaimsDiffer'
  BY <1>3 DEF NumberInv, ClaimsDiffer, Claims, Doing
<1> QED
  BY <1>4, <1>5, <1>6, <1>7 DEF NumberInv

\* A revision that appears with a free number disturbs no other number.
LEMMA NewNumber ==
  ASSUME TypeOK, NumbersDiffer,
         NEW i \in Revisions \ Present, NEW t \in Terms, NEW k \in Nat,
         k \notin Numbers(t),
         Present' = Present \cup {i}, term'[i] = t, number'[i] = k,
         \A j \in Present : term'[j] = term[j] /\ number'[j] = number[j]
  PROVE  /\ NumbersDiffer'
         /\ Numbers(t)' = Numbers(t) \cup {k}
         /\ \A s \in Terms \ {t} : Numbers(s)' = Numbers(s)
<1>1. Numbers(t)' = Numbers(t) \cup {k}
  BY DEF Numbers
<1>2. \A s \in Terms \ {t} : Numbers(s)' = Numbers(s)
  BY DEF Numbers
<1>3. NumbersDiffer'
  BY DEF NumbersDiffer, Numbers
<1> QED
  BY <1>1, <1>2, <1>3

LEMMA ImportCommitNumbers ==
  ASSUME ImportInv, TypeOK', NumberInv, NEW q \in Requests, ImportCommit(q)
  PROVE  NumberInv'
<1>1. PICK c \in Batches, t \in Terms, k \in Nat :
        c = request[q].batch /\ t = c[1] /\ k = request[q].number
  BY BatchType DEF ImportCommit, Doing, Importing
<1>2. Claims(q) /\ Numbered(request[q]) /\ request[q] \in Importing
  BY DEF ImportCommit, Claims, Doing, NumberInv, WorkIsNumbered, Idle
<1>3. k \notin Numbers(t) /\ t \in terms
  BY <1>1, <1>2 DEF Numbered, Claims
<1>4. PICK i \in Revisions \ Present :
        /\ status' = [status EXCEPT ![i] = "COMMITTED"]
        /\ term' = [term EXCEPT ![i] = t]
        /\ number' = [number EXCEPT ![i] = k]
        /\ keys' = [keys EXCEPT ![i] = <<t, k>>]
  BY <1>1 DEF ImportCommit
<1>5. /\ staged' = [staged EXCEPT ![c] = "COMMITTED"]
      /\ request' = [request EXCEPT ![q] = None]
      /\ terms' = terms
  BY <1>1 DEF ImportCommit, Ends, Becomes
<1>6. TypeOK
  BY DEF ImportInv
<1>7. /\ Present' = Present \cup {i} /\ term'[i] = t /\ number'[i] = k
      /\ keys'[i] = <<t, k>> /\ status'[i] = "COMMITTED"
      /\ \A j \in Present : /\ status'[j] = status[j] /\ term'[j] = term[j]
                            /\ number'[j] = number[j] /\ keys'[j] = keys[j]
  BY <1>4, <1>6 DEF Present, TypeOK
<1>8. /\ NumbersDiffer'
      /\ Numbers(t)' = Numbers(t) \cup {k}
      /\ \A s \in Terms \ {t} : Numbers(s)' = Numbers(s)
  BY <1>3, <1>6, <1>7, NewNumber DEF NumberInv
<1>9. TermsExist'
  <2>1. \A b \in Batches : staged'[b] # "ABSENT" => b[1] \in terms
    BY <1>1, <1>3, <1>5, <1>6 DEF NumberInv, TermsExist, TypeOK
  <2> QED
    BY <1>3, <1>5, <1>7, <2>1 DEF NumberInv, TermsExist
<1>10. KeysHold'
  BY <1>7 DEF NumberInv, KeysHold, Immutable
<1>11. WorkIsNumbered'
  <2> SUFFICES ASSUME NEW p \in Requests, request'[p] # None
               PROVE  Numbered(request[p])'
    BY DEF WorkIsNumbered, Idle
  <2>1. PICK w \in Work : /\ p # q /\ request'[p] = w /\ w = request[p]
                         /\ Numbered(w) /\ Harmless(w)
    BY <1>5, <1>6
    DEF TypeOK, NumberInv, WorkIsNumbered, ImportInv, WorkIsHarmless, Idle
  <2>2. w \in Previewing \cup Importing => w.batch[1] \in terms'
    BY <1>5, <2>1 DEF Numbered
  <2>3. ASSUME w \in Importing, w.at # "numbered"
        PROVE  w.number \notin Numbers(w.batch[1])'
    <3>1. PICK s \in Terms : s = w.batch[1]
      BY <2>3, BatchType DEF Importing
    <3>2. w.number \notin Numbers(s)
      BY <2>1, <2>3, <3>1 DEF Numbered
    <3>3. Claims(p)
      BY <2>1, <2>3, DatasetAssumption DEF Claims, Doing, Work
    <3>4. s = t => w.number # k
      BY <1>1, <1>2, <2>1, <3>1, <3>3 DEF NumberInv, ClaimsDiffer
    <3>5. w.number \notin Numbers(s)'
      BY <1>8, <3>2, <3>4
    <3> QED
      BY <3>1, <3>5
  <2>4. ASSUME w \in Forms
        PROVE  /\ w.term \in terms'
               /\ keys'[w.revision] # None =>
                    /\ w.status \in Immutable
                    /\ keys'[w.revision] = <<w.term, w.number>>
    <3>1. w.revision \in Present
      BY <2>1, <2>4 DEF Harmless
    <3> QED
      BY <1>5, <1>7, <2>1, <2>4, <3>1 DEF Numbered
  <2> QED
    BY <2>1, <2>2, <2>3, <2>4 DEF Numbered
<1>12. ClaimsDiffer'
  BY <1>5, <1>6 DEF NumberInv, ClaimsDiffer, Claims, Doing, TypeOK
<1> QED
  BY <1>8, <1>9, <1>10, <1>11, <1>12 DEF NumberInv

LEMMA CloneNumbers ==
  ASSUME ImportInv, TypeOK', NumberInv, NEW i \in Revisions, NEW j \in Revisions,
         NEW t \in Terms, Clone(i, j, t)
  PROVE  NumberInv'
<1>1. TypeOK
  BY DEF ImportInv
<1>2. /\ j \in Revisions \ Present /\ t \notin terms
      /\ request' = request /\ staged' = staged /\ terms' = terms \cup {t}
  BY DEF Clone, batchVars
<1>3. Numbers(t) = {}
  BY <1>2 DEF NumberInv, TermsExist, Numbers
<1>4. /\ Present' = Present \cup {j} /\ term'[j] = t /\ number'[j] = 1
      /\ keys'[j] = None
      /\ \A k \in Present : /\ status'[k] = status[k] /\ term'[k] = term[k]
                            /\ number'[k] = number[k] /\ keys'[k] = keys[k]
  BY <1>1 DEF Clone, Present, TypeOK
<1>5. NumbersDiffer' /\ \A s \in Terms \ {t} : Numbers(s)' = Numbers(s)
  BY <1>1, <1>2, <1>3, <1>4, NewNumber DEF NumberInv
<1>6. TermsExist' /\ KeysHold'
  BY <1>2, <1>4 DEF NumberInv, TermsExist, KeysHold
<1>7. WorkIsNumbered'
  <2> SUFFICES ASSUME NEW p \in Requests, request[p] # None
               PROVE  Numbered(request[p])'
    BY <1>2 DEF WorkIsNumbered, Idle
  <2>1. PICK w \in Work : /\ request'[p] = w /\ w = request[p]
                         /\ Numbered(w) /\ Harmless(w)
    BY <1>1, <1>2
    DEF TypeOK, NumberInv, WorkIsNumbered, ImportInv, WorkIsHarmless, Idle
  <2>2. ASSUME w \in Previewing \cup Importing
        PROVE  w.batch[1] \in terms /\ Numbers(w.batch[1])' = Numbers(w.batch[1])
    <3>1. PICK s \in Terms : s = w.batch[1]
      BY <2>2, BatchType DEF Previewing, Importing
    <3>2. s \in terms
      BY <2>1, <2>2, <3>1 DEF Numbered
    <3> QED
      BY <1>2, <1>5, <3>1, <3>2
  <2>3. w \in Forms => keys'[w.revision] = keys[w.revision]
    BY <1>4, <2>1 DEF Harmless
  <2> QED
    BY <1>2, <2>1, <2>2, <2>3 DEF Numbered
<1>8. ClaimsDiffer'
  BY <1>2 DEF NumberInv, ClaimsDiffer, Claims, Doing
<1> QED
  BY <1>5, <1>6, <1>7, <1>8 DEF NumberInv

\* A form may renumber and move a draft: the indexes keep its new number apart
\* from those in use and from those that imports have inserted.
LEMMA FormWriteNumbers ==
  ASSUME ImportInv, TypeOK', NumberInv, NEW q \in Requests, FormWrite(q)
  PROVE  NumberInv'
<1>1. TypeOK
  BY DEF ImportInv
<1>2. PICK f \in Forms : f = request[q] /\ Numbered(f) /\ Harmless(f)
  BY DEF FormWrite, Doing, Idle, NumberInv, WorkIsNumbered, ImportInv,
         WorkIsHarmless
<1>3. PICK i \in Present : i = f.revision /\ i \in Revisions
  BY <1>2 DEF Harmless, Present
<1>4. /\ status' = [status EXCEPT ![i] = f.status]
      /\ term' = [term EXCEPT ![i] = f.term]
      /\ number' = [number EXCEPT ![i] = f.number]
      /\ request' = [request EXCEPT ![q] = None]
      /\ UNCHANGED <<keys, terms, staged>>
      /\ ~NumberClaimed(f.term, f.number)
      /\ Unique(i, f.term, f.number, f.hash)
  BY <1>2, <1>3 DEF FormWrite, Ends, Becomes, batchVars
<1>5. /\ Present' = Present /\ f.status \in Statuses
      /\ status'[i] = f.status /\ term'[i] = f.term /\ number'[i] = f.number
      /\ \A j \in Present \ {i} : /\ status'[j] = status[j]
                                  /\ term'[j] = term[j] /\ number'[j] = number[j]
  BY <1>1, <1>3, <1>4 DEF Present, TypeOK, Forms, Statuses
<1>6. NumbersDiffer'
  BY <1>4, <1>5 DEF NumberInv, NumbersDiffer, Unique
<1>7. TermsExist'
  BY <1>2, <1>4, <1>5 DEF NumberInv, TermsExist, Numbered
<1>8. KeysHold'
  BY <1>2, <1>3, <1>4, <1>5 DEF NumberInv, KeysHold, Numbered
<1>9. WorkIsNumbered'
  <2> SUFFICES ASSUME NEW p \in Requests, request'[p] # None
               PROVE  Numbered(request[p])'
    BY DEF WorkIsNumbered, Idle
  <2>1. PICK w \in Work : /\ p # q /\ request'[p] = w /\ w = request[p]
                         /\ Numbered(w)
    BY <1>1, <1>4 DEF TypeOK, NumberInv, WorkIsNumbered, Idle
  <2>2. ASSUME w \in Importing, w.at # "numbered"
        PROVE  w.number \notin Numbers(w.batch[1])'
    <3>1. Claims(p)
      BY <2>1, <2>2, DatasetAssumption DEF Claims, Doing, Work
    <3>2. ~(w.batch[1] = f.term /\ w.number = f.number)
      BY <1>4, <2>1, <3>1 DEF NumberClaimed, Claims
    <3>3. w.number \notin Numbers(w.batch[1])
      BY <2>1, <2>2 DEF Numbered
    <3> QED
      BY <1>5, <3>2, <3>3 DEF Numbers
  <2> QED
    BY <1>4, <2>1, <2>2 DEF Numbered
<1>10. ClaimsDiffer'
  BY <1>1, <1>4 DEF NumberInv, ClaimsDiffer, Claims, Doing, TypeOK
<1> QED
  BY <1>6, <1>7, <1>8, <1>9, <1>10 DEF NumberInv

LEMMA NextNumberInv ==
  ASSUME ImportInv, NumberInv, [Next]_vars
  PROVE  NumberInv'
<1>1. TypeOK /\ TypeOK'
  BY NextTypeOK DEF ImportInv
<1>2. \A b \in Batches : staged[b] # "ABSENT" => b[1] \in terms
  BY DEF NumberInv, TermsExist
<1>3. UNCHANGED revisionVars =>
        /\ Present' = Present /\ UNCHANGED <<term, number, keys, terms>>
        /\ \A i \in Present : status'[i] \in {status[i]} \cup Immutable
  BY DEF revisionVars, Present
<1>4. ASSUME NEW q \in Requests, Ends(q), Present' = Present,
             UNCHANGED <<term, number, keys, terms, staged>>,
             \A i \in Present : status'[i] \in {status[i]} \cup Immutable
      PROVE  NumberInv'
  <2>1. None \notin Importing
    BY DatasetAssumption DEF Work
  <2> QED
    BY <1>1, <1>2, <1>4, <2>1, KeepingNumbers DEF Ends
<1>5. ASSUME NEW q \in Requests, NEW w \in Work \cup {None}, Becomes(q, w),
             UNCHANGED <<revisionVars, batchVars>>,
             w # None => Numbered(w), w \notin Importing
      PROVE  NumberInv'
  BY <1>1, <1>2, <1>3, <1>5, KeepingNumbers DEF batchVars
<1>6. ASSUME NEW q \in Requests, NEW b \in Batches, PreviewRead(q, b)
      PROVE  NumberInv'
  <2> DEFINE w == [op |-> "preview", batch |-> b, fresh |-> staged[b] = "ABSENT"]
  <2>1. w \in Work /\ w \notin Importing /\ w \notin Forms
    BY DEF Work, Previewing, Importing, Forms
  <2>2. Numbered(w)
    BY <1>6, <2>1 DEF Numbered, PreviewRead
  <2> QED
    BY <1>5, <1>6, <2>1, <2>2 DEF PreviewRead
<1>7. ASSUME NEW q \in Requests, PreviewWrite(q) PROVE NumberInv'
  <2> DEFINE b == request[q].batch
  <2>1. b \in Batches /\ b[1] \in terms
    BY <1>7
    DEF PreviewWrite, Doing, Previewing, NumberInv, WorkIsNumbered, Idle, Numbered
  <2>2. \A c \in Batches : staged'[c] # "ABSENT" => c[1] \in terms
    BY <1>1, <1>2, <1>7, <2>1 DEF PreviewWrite, TypeOK
  <2>3. None \notin Importing
    BY DatasetAssumption DEF Work
  <2> QED
    BY <1>1, <1>3, <1>7, <2>2, <2>3, KeepingNumbers DEF PreviewWrite, Ends
<1>8. ASSUME NEW q \in Requests, NEW b \in Batches, ImportRead(q, b)
      PROVE  NumberInv'
  <2>1. PICK n : Becomes(q, [op |-> "import", batch |-> b, number |-> n,
                             at |-> "numbered"])
    BY <1>8 DEF ImportRead
  <2> DEFINE w == [op |-> "import", batch |-> b, number |-> n, at |-> "numbered"]
  <2>2. w = request'[q] /\ w \in Work \cup {None}
    BY <1>1, <2>1 DEF Becomes, TypeOK
  <2>3. b[1] \in terms /\ w \notin Forms
    BY <1>2, <1>8 DEF ImportRead, Forms
  <2>4. Numbered(w)
    BY <2>3 DEF Numbered
  <2> QED
    BY <1>1, <1>2, <1>3, <1>8, <2>1, <2>2, <2>4, KeepingNumbers
    DEF ImportRead, batchVars
<1>9. ASSUME NEW q \in Requests, NEW a \in {"inserted", "cataloged"},
             Doing(q, Importing),
             request' = [request EXCEPT ![q].at = a],
             UNCHANGED <<revisionVars, batchVars>>,
             request[q].number \notin Numbers(request[q].batch[1]),
             \A p \in Requests \ {q} :
               Claims(p) /\ request[p].batch[1] = request[q].batch[1] =>
                 request[p].number # request[q].number
      PROVE  NumberInv'
  <2> DEFINE v == request[q]
             w == [v EXCEPT !.at = a]
  <2>1. Becomes(q, w) /\ w = request'[q]
    BY <1>1, <1>9 DEF Becomes, TypeOK
  <2>2. /\ v \in Importing /\ Numbered(v)
        /\ w \in Importing /\ w.batch = v.batch /\ w.number = v.number
    BY <1>9 DEF Doing, Importing, NumberInv, WorkIsNumbered, Idle
  <2>3. w \in Work /\ w \notin Forms
    BY <2>2 DEF Work, Importing, Forms
  <2>4. Numbered(w)
    BY <1>9, <2>2, <2>3 DEF Numbered
  <2> QED
    BY <1>1, <1>2, <1>3, <1>9, <2>1, <2>2, <2>3, <2>4, KeepingNumbers
    DEF batchVars
<1>10. ASSUME NEW q \in Requests, ImportInsert(q) PROVE NumberInv'
  <2>1. PICK t, n : t = request[q].batch[1] /\ n = request[q].number
    OBVIOUS
  <2>2. ~NumberClaimed(t, n) /\ Unique(None, t, n, None)
    BY <1>10, <2>1 DEF ImportInsert
  <2>3. n \notin Numbers(t)
    BY <2>2, DatasetAssumption DEF Unique, Numbers, Present
  <2>4. \A p \in Requests \ {q} :
          Claims(p) /\ request[p].batch[1] = t => request[p].number # n
    BY <2>2 DEF NumberClaimed, Claims
  <2> QED
    BY <1>9, <1>10, <2>1, <2>3, <2>4 DEF ImportInsert
<1>11. ASSUME NEW q \in Requests, ImportCatalog(q) PROVE NumberInv'
  <2>1. Claims(q) /\ request[q] \in Importing /\ Numbered(request[q])
    BY <1>11 DEF ImportCatalog, Claims, Doing, NumberInv, WorkIsNumbered, Idle
  <2>2. request[q].number \notin Numbers(request[q].batch[1])
    BY <2>1 DEF Claims, Numbered
  <2>3. \A p \in Requests \ {q} :
          Claims(p) /\ request[p].batch[1] = request[q].batch[1] =>
            request[p].number # request[q].number
    BY <2>1 DEF NumberInv, ClaimsDiffer
  <2> QED
    BY <1>9, <1>11, <2>2, <2>3 DEF ImportCatalog
<1>12. ASSUME NEW q \in Requests, FinalizeCommit(q) PROVE NumberInv'
  <2>1. request[q].revision \in Present
    BY <1>12 DEF FinalizeCommit, Doing, Idle, ImportInv, WorkIsHarmless, Harmless
  <2>2. Present' = Present
    BY <1>1, <1>12, <2>1 DEF FinalizeCommit, Present, TypeOK
  <2>3. \A i \in Present : status'[i] \in {status[i]} \cup Immutable
    BY <1>1, <1>12 DEF FinalizeCommit, TypeOK, Immutable, Present
  <2> QED
    BY <1>4, <1>12, <2>2, <2>3 DEF FinalizeCommit, batchVars
<1>13. ASSUME NEW q \in Requests,
              Abandon(q) \/ EditWrite(q) \/ FurnishWrite(q)
       PROVE  NumberInv'
  <2>1. /\ Ends(q) /\ Present' = Present /\ status' = status
        /\ UNCHANGED <<term, number, keys, terms, staged>>
    BY <1>13
    DEF Abandon, EditWrite, FurnishWrite, revisionVars, batchVars, Present
  <2> QED
    BY <1>4, <2>1
<1>14. ASSUME NEW q \in Requests, NEW i \in Revisions, FinalizeBuild(q, i)
       PROVE  NumberInv'
  <2>1. PICK w : /\ Becomes(q, w) /\ w.op = "finalize"
                 /\ UNCHANGED <<revisionVars, batchVars>>
    BY <1>14 DEF FinalizeBuild
  <2>2. w \in Work \cup {None}
    BY <1>1, <2>1 DEF Becomes, TypeOK
  <2>3. w \notin Importing \cup Previewing \cup Forms
    BY <2>1 DEF Importing, Previewing, Forms
  <2> QED
    BY <1>5, <2>1, <2>2, <2>3 DEF Numbered
<1>15. ASSUME NEW q \in Requests, NEW i \in Revisions, NEW r \in RowData,
              EditCheck(q, i, r)
       PROVE  NumberInv'
  <2> DEFINE w == [op |-> "edit", revision |-> i, rows |-> r]
  <2>1. w \in Work /\ w \notin Importing \cup Previewing \cup Forms
    BY DEF Work, Editing, Importing, Previewing, Forms
  <2> QED
    BY <1>5, <1>15, <2>1 DEF EditCheck, Numbered
<1>16. ASSUME NEW q \in Requests, NEW r \in RoomData, FurnishCheck(q, r)
       PROVE  NumberInv'
  <2> DEFINE w == [op |-> "furnish", room |-> r]
  <2>1. w \in Work /\ w \notin Importing \cup Previewing \cup Forms
    BY DEF Work, Furnishing, Importing, Previewing, Forms
  <2> QED
    BY <1>5, <1>16, <2>1 DEF FurnishCheck, Numbered
<1>17. ASSUME NEW q \in Requests, NEW i \in Present, NEW w \in FormsOf(i),
              FormCheck(q, w)
       PROVE  NumberInv'
  <2>1. w \in Forms /\ w.revision = i /\ w.term \in terms
    BY <1>1, FormsOfType DEF FormsOf
  <2>2. w \in Work /\ w \notin Importing \cup Previewing
    BY <2>1 DEF Work, Forms, Importing, Previewing
  <2>3. keys[i] # None => w.status \in Immutable /\ keys[i] = <<w.term, w.number>>
    BY <1>17, <2>1 DEF NumberInv, KeysHold, FormCheck, Savable, Immutable
  <2> QED
    BY <1>5, <1>17, <2>1, <2>2, <2>3 DEF FormCheck, Numbered
<1>18. CASE UNCHANGED vars
  <2>1. Present' = Present
    BY <1>18 DEF vars, Present
  <2>2. \A t : Numbers(t)' = Numbers(t)
    BY <1>18, <2>1 DEF vars, Numbers
  <2>3. NumbersDiffer' /\ TermsExist' /\ KeysHold' /\ ClaimsDiffer'
    BY <1>18, <2>1
    DEF vars, NumberInv, NumbersDiffer, TermsExist, KeysHold, ClaimsDiffer,
        Claims, Doing
  <2>4. WorkIsNumbered'
    BY <1>18, <2>2 DEF vars, NumberInv, WorkIsNumbered, Numbered, Idle
  <2> QED
    BY <2>3, <2>4 DEF NumberInv
<1> QED
  BY <1>1, <1>6, <1>7, <1>8, <1>10, <1>11, <1>12, <1>13, <1>14, <1>15, <1>16,
     <1>17, <1>18, ImportCommitNumbers, CloneNumbers, FormWriteNumbers
  DEF Next, Import, Administer

\* A term and a number name one revision although imports read the maximum
\* without a lock and drafts may be renumbered and moved by hand; an import keeps
\* the number that its meetings were keyed with, and no other import ever holds
\* it, so that the unique keys of the meetings cannot fail an import.
THEOREM NumbersStayUnique == Spec => []NumbersIdentify
<1>1. Init => ImportInv /\ NumberInv
  <2> SUFFICES ASSUME Init PROVE ImportInv /\ NumberInv
    OBVIOUS
  <2>1. Present = {} /\ \A q \in Requests : Idle(q)
    BY DEF Init, Present, Idle
  <2>2. ImportInv
    BY <2>1, InitTypeOK DEF Init, ImportInv, ImportsAreKept, WorkIsHarmless
  <2>3. NumbersDiffer /\ KeysHold /\ WorkIsNumbered
    BY <2>1 DEF NumbersDiffer, KeysHold, WorkIsNumbered
  <2>4. TermsExist
    BY <2>1 DEF Init, TermsExist
  <2>5. ClaimsDiffer
    BY <2>1 DEF ClaimsDiffer, Claims, Doing, Idle
  <2> QED
    BY <2>2, <2>3, <2>4, <2>5 DEF NumberInv
<1>2. (ImportInv /\ NumberInv) /\ [Next]_vars => (ImportInv /\ NumberInv)'
  BY NextImportInv, NextNumberInv
<1>3. ImportInv /\ NumberInv => NumbersIdentify
  <2> SUFFICES ASSUME ImportInv, NumberInv,
                      NEW i \in Present, keys[i] # None,
                      NumberClaimed(keys[i][1], keys[i][2])
               PROVE  FALSE
    BY DEF NumbersIdentify, NumberInv, NumbersDiffer, KeysHold
  <2>1. keys[i] = <<term[i], number[i]>>
    BY DEF NumberInv, KeysHold
  <2>2. PICK q \in Requests :
          /\ Doing(q, Importing) /\ request[q].at # "numbered"
          /\ request[q].batch[1] = term[i] /\ request[q].number = number[i]
    BY <2>1 DEF NumberClaimed
  <2>3. request[q].number \notin Numbers(request[q].batch[1])
    BY <2>2 DEF NumberInv, WorkIsNumbered, Numbered, Doing, Idle
  <2> QED
    BY <2>2, <2>3 DEF Numbers
<1> QED
  BY <1>1, <1>2, <1>3, PTL DEF Spec

-----------------------------------------------------------------------------
(* What is frozen. *)

\* A revision that is being finalized is a draft, and nobody else finalizes it.
LockInv ==
  \A q \in Requests : Doing(q, Finalizing) =>
    /\ status[request[q].revision] = "DRAFT"
    /\ \A p \in Requests \ {q} :
         Doing(p, Finalizing) => request[p].revision # request[q].revision

\* A step that takes up no finalization and leaves the drafts alone on which
\* somebody goes on working.
LEMMA KeepingLocks ==
  ASSUME LockInv,
         \A p \in Requests : Doing(p, Finalizing)' =>
           /\ Doing(p, Finalizing) /\ request'[p] = request[p]
           /\ status[request[p].revision] = "DRAFT" =>
                status'[request[p].revision] = "DRAFT"
  PROVE  LockInv'
BY DEF LockInv

LEMMA NextLockInv ==
  ASSUME TypeOK, TypeOK', LockInv, [Next]_vars
  PROVE  LockInv'
<1>1. ASSUME NEW q \in Requests, NEW w, Becomes(q, w),
             w # None => w \notin Finalizing,
             status' = status
      PROVE  LockInv'
  BY <1>1, KeepingLocks DEF Becomes, TypeOK, Doing
<1>2. ASSUME NEW q \in Requests,
             \/ Abandon(q) \/ PreviewWrite(q) \/ EditWrite(q) \/ FurnishWrite(q)
      PROVE  LockInv'
  <2>1. Becomes(q, None) /\ status' = status
    BY <1>2
    DEF Abandon, PreviewWrite, EditWrite, FurnishWrite, Ends, revisionVars
  <2> QED
    BY <1>1, <2>1 DEF Finalizing
<1>3. ASSUME NEW q \in Requests, NEW b \in Batches,
             PreviewRead(q, b) \/ ImportRead(q, b)
      PROVE  LockInv'
  <2>1. PICK w : /\ Becomes(q, w) /\ w.op \in {"preview", "import"}
                 /\ status' = status
    BY <1>3 DEF PreviewRead, ImportRead, revisionVars
  <2> QED
    BY <1>1, <2>1 DEF Finalizing
<1>4. ASSUME NEW q \in Requests, ImportInsert(q) \/ ImportCatalog(q)
      PROVE  LockInv'
  <2>1. PICK a : request' = [request EXCEPT ![q].at = a]
    BY <1>4 DEF ImportInsert, ImportCatalog
  <2> DEFINE w == [request[q] EXCEPT !.at = a]
  <2>2. Becomes(q, w) /\ request[q] \in Importing
    BY <1>4, <2>1 DEF ImportInsert, ImportCatalog, Becomes, Doing
  <2>3. w.op = "import"
    BY <2>2 DEF Importing
  <2> QED
    BY <1>1, <1>4, <2>2, <2>3
    DEF Finalizing, ImportInsert, ImportCatalog, revisionVars
<1>5. ASSUME NEW q \in Requests, ImportCommit(q) PROVE LockInv'
  <2>1. PICK i \in Revisions \ Present :
          status' = [status EXCEPT ![i] = "COMMITTED"]
    BY <1>5 DEF ImportCommit
  <2>2. \A k \in Revisions : status[k] = "DRAFT" => status'[k] = "DRAFT"
    BY <2>1 DEF TypeOK, Present
  <2> QED
    BY <1>5, <2>2, KeepingLocks
    DEF ImportCommit, Ends, Becomes, TypeOK, Doing, Finalizing
<1>6. ASSUME NEW i \in Revisions, NEW j \in Revisions, NEW t \in Terms,
             Clone(i, j, t)
      PROVE  LockInv'
  BY <1>6, KeepingLocks DEF Clone, TypeOK, Doing, Finalizing
<1>7. ASSUME NEW q \in Requests, NEW i \in Revisions, FinalizeBuild(q, i)
      PROVE  LockInv'
  <2> DEFINE w == [op |-> "finalize", revision |-> i,
                   content |-> [rows |-> rows[i], room |-> room]]
  <2>1. /\ \A p \in Requests \ {q} : request'[p] = request[p]
        /\ request'[q] = w /\ w.revision = i
        /\ status' = status /\ status[i] = "DRAFT"
    BY <1>7 DEF FinalizeBuild, Becomes, TypeOK, revisionVars
  <2>2. \A p \in Requests : Doing(p, Finalizing) => request[p].revision # i
    BY <1>7 DEF FinalizeBuild, RevisionLocked
  <2> QED
    BY <2>1, <2>2 DEF LockInv, Doing
<1>8. ASSUME NEW q \in Requests, FinalizeCommit(q) PROVE LockInv'
  <2>1. /\ \A p \in Requests \ {q} : request'[p] = request[p]
        /\ request'[q] = None
        /\ status' = [status EXCEPT ![request[q].revision] = "COMMITTED"]
    BY <1>8 DEF FinalizeCommit, Ends, Becomes, TypeOK
  <2>2. ASSUME NEW p \in Requests \ {q}, Doing(p, Finalizing)
        PROVE  /\ request[p].revision \in Revisions
               /\ request[p].revision # request[q].revision
    BY <1>8, <2>2 DEF FinalizeCommit, LockInv, Doing, Finalizing
  <2>3. \A p \in Requests \ {q} : Doing(p, Finalizing) =>
          status'[request[p].revision] = status[request[p].revision]
    BY <2>1, <2>2 DEF TypeOK
  <2> QED
    BY <2>1, <2>3, KeepingLocks DEF Doing
<1>9. ASSUME NEW q \in Requests, NEW i \in Revisions, NEW r \in RowData,
             EditCheck(q, i, r)
      PROVE  LockInv'
  <2>1. [op |-> "edit", revision |-> i, rows |-> r] \notin Finalizing
    BY DEF Finalizing
  <2> QED
    BY <1>1, <1>9, <2>1 DEF EditCheck, revisionVars
<1>10. ASSUME NEW q \in Requests, NEW r \in RoomData, FurnishCheck(q, r)
       PROVE  LockInv'
  <2>1. [op |-> "furnish", room |-> r] \notin Finalizing
    BY DEF Finalizing
  <2> QED
    BY <1>1, <1>10, <2>1 DEF FurnishCheck, revisionVars
<1>11. ASSUME NEW q \in Requests, NEW i \in Present, NEW w \in FormsOf(i),
              FormCheck(q, w)
       PROVE  LockInv'
  <2>1. w \notin Finalizing
    BY DEF FormsOf, Finalizing
  <2> QED
    BY <1>1, <1>11, <2>1 DEF FormCheck, revisionVars
<1>12. ASSUME NEW q \in Requests, FormWrite(q) PROVE LockInv'
  <2>1. /\ \A p \in Requests \ {q} : request'[p] = request[p]
        /\ request'[q] = None
        /\ status' = [status EXCEPT ![request[q].revision] = request[q].status]
    BY <1>12 DEF FormWrite, Ends, Becomes, TypeOK
  <2>2. \A p \in Requests : Doing(p, Finalizing) =>
          request[p].revision # request[q].revision
    BY <1>12 DEF FormWrite, RevisionLocked
  <2>3. \A p \in Requests : Doing(p, Finalizing) =>
          status'[request[p].revision] = status[request[p].revision]
    BY <2>1, <2>2 DEF TypeOK, Doing, Finalizing
  <2> QED
    BY <2>1, <2>3, KeepingLocks DEF Doing
<1>13. CASE UNCHANGED vars
  BY <1>13, KeepingLocks DEF vars, Doing
<1> QED
  BY <1>2, <1>3, <1>4, <1>5, <1>6, <1>7, <1>8, <1>9, <1>10, <1>11, <1>12, <1>13
  DEF Next, Import, Administer

\* What a step may do to an immutable revision.
KeptFrozen(i) ==
  /\ LateEditors(i)' \subseteq LateEditors(i)
  /\ SameIdentity(i) => LateForms(i)' \subseteq LateForms(i)
  /\ i \notin Frozen' \/ ~SameIdentity(i) => \E q \in LateForms(i) : Idle(q)'
  /\ rows'[i] # rows[i] => LateEditors(i)' # LateEditors(i)

\* A form that leaves a revision what it is.
Confirms(w, i) ==
  /\ w.status \in Immutable
  /\ w.term = term[i] /\ w.number = number[i] /\ w.hash = hash[i]

\* A step that leaves a revision alone and takes up no late work on it.
LEMMA LeavingAlone ==
  ASSUME TypeOK, NEW i \in Frozen, status'[i] \in Immutable, SameIdentity(i),
         rows'[i] = rows[i],
         NEW q \in Requests, NEW w, Becomes(q, w),
         ~(w # None /\ w \in Editing /\ w.revision = i),
         w # None /\ w \in Forms /\ w.revision = i => Confirms(w, i)
  PROVE  KeptFrozen(i)
<1>1. /\ \A p \in Requests \ {q} : request'[p] = request[p]
      /\ request'[q] = w
  BY DEF Becomes, TypeOK
<1>2. i \in Frozen'
  BY DEF Frozen, Present, Immutable
<1>3. LateEditors(i)' \subseteq LateEditors(i)
  BY <1>1 DEF LateEditors, Doing
<1>4. LateForms(i)' \subseteq LateForms(i)
  BY <1>1 DEF LateForms, Doing, SameIdentity, Confirms
<1> QED
  BY <1>2, <1>3, <1>4 DEF KeptFrozen

LEMMA FrozenStep ==
  ASSUME TypeOK, TypeOK', LockInv, Next, NEW i \in Frozen
  PROVE  KeptFrozen(i)
<1>1. i \in Revisions /\ status[i] \in Immutable /\ i \in Present
  BY DEF Frozen, Present
<1>2. ASSUME NEW q \in Requests, Ends(q), status'[i] \in Immutable,
             SameIdentity(i), rows'[i] = rows[i]
      PROVE  KeptFrozen(i)
  BY <1>2, LeavingAlone DEF Ends
<1>3. ASSUME NEW q \in Requests,
             Abandon(q) \/ PreviewWrite(q) \/ FurnishWrite(q)
      PROVE  KeptFrozen(i)
  BY <1>1, <1>2, <1>3
  DEF Abandon, PreviewWrite, FurnishWrite, revisionVars, SameIdentity
<1>4. ASSUME NEW q \in Requests, NEW w, Becomes(q, w), UNCHANGED revisionVars,
             w \notin Editing \cup Forms
      PROVE  KeptFrozen(i)
  BY <1>1, <1>4, LeavingAlone DEF revisionVars, SameIdentity
<1>5. ASSUME NEW q \in Requests, NEW b \in Batches, PreviewRead(q, b)
      PROVE  KeptFrozen(i)
  <2> DEFINE w == [op |-> "preview", batch |-> b, fresh |-> staged[b] = "ABSENT"]
  <2>1. w \notin Editing \cup Forms
    BY DEF Editing, Forms
  <2> QED
    BY <1>4, <1>5, <2>1 DEF PreviewRead
<1>6. ASSUME NEW q \in Requests, NEW b \in Batches, ImportRead(q, b)
      PROVE  KeptFrozen(i)
  <2>1. PICK n : Becomes(q, [op |-> "import", batch |-> b, number |-> n,
                             at |-> "numbered"])
    BY <1>6 DEF ImportRead
  <2>2. [op |-> "import", batch |-> b, number |-> n, at |-> "numbered"]
          \notin Editing \cup Forms
    BY DEF Editing, Forms
  <2> QED
    BY <1>4, <1>6, <2>1, <2>2 DEF ImportRead
<1>7. ASSUME NEW q \in Requests, ImportInsert(q) \/ ImportCatalog(q)
      PROVE  KeptFrozen(i)
  <2>1. PICK a : request' = [request EXCEPT ![q].at = a]
    BY <1>7 DEF ImportInsert, ImportCatalog
  <2> DEFINE w == [request[q] EXCEPT !.at = a]
  <2>2. Becomes(q, w)
    BY <2>1 DEF Becomes
  <2>3. request[q] \in Importing
    BY <1>7 DEF ImportInsert, ImportCatalog, Doing
  <2>4. w.op = "import"
    BY <2>3 DEF Importing
  <2>5. w \notin Editing \cup Forms
    BY <2>4 DEF Editing, Forms
  <2> QED
    BY <1>4, <1>7, <2>2, <2>5 DEF ImportInsert, ImportCatalog
<1>8. ASSUME NEW q \in Requests, ImportCommit(q) PROVE KeptFrozen(i)
  <2>1. PICK j \in Revisions \ Present :
          /\ status' = [status EXCEPT ![j] = "COMMITTED"]
          /\ term' = [term EXCEPT ![j] = request[q].batch[1]]
          /\ number' = [number EXCEPT ![j] = request[q].number]
          /\ hash' = [hash EXCEPT ![j] = SheetsHash(request[q].batch[2])]
          /\ rows' = [rows EXCEPT ![j] = Sheets[request[q].batch[2]].rows]
    BY <1>8 DEF ImportCommit
  <2>2. status'[i] = status[i] /\ SameIdentity(i) /\ rows'[i] = rows[i]
    BY <1>1, <2>1 DEF TypeOK, SameIdentity
  <2> QED
    BY <1>1, <1>2, <1>8, <2>2 DEF ImportCommit
<1>9. ASSUME NEW k \in Revisions, NEW j \in Revisions, NEW t \in Terms,
             Clone(k, j, t)
      PROVE  KeptFrozen(i)
  <2>1. /\ status'[i] = status[i] /\ rows'[i] = rows[i] /\ request' = request
        /\ SameIdentity(i)
    BY <1>1, <1>9 DEF Clone, TypeOK, SameIdentity
  <2>2. i \in Frozen'
    BY <1>1, <2>1 DEF Frozen, Present
  <2> QED
    BY <2>1, <2>2 DEF KeptFrozen, LateEditors, LateForms, Doing, SameIdentity
<1>10. ASSUME NEW q \in Requests, NEW k \in Revisions, FinalizeBuild(q, k)
       PROVE  KeptFrozen(i)
  <2> DEFINE w == [op |-> "finalize", revision |-> k,
                   content |-> [rows |-> rows[k], room |-> room]]
  <2>1. w \notin Editing \cup Forms
    BY DEF Editing, Forms
  <2> QED
    BY <1>4, <1>10, <2>1 DEF FinalizeBuild
<1>11. ASSUME NEW q \in Requests, FinalizeCommit(q) PROVE KeptFrozen(i)
  <2>1. request[q].revision # i
    BY <1>1, <1>11 DEF FinalizeCommit, LockInv, Immutable
  <2>2. status'[i] \in Immutable /\ SameIdentity(i) /\ rows'[i] = rows[i]
    BY <1>1, <1>11, <2>1 DEF FinalizeCommit, TypeOK, SameIdentity
  <2> QED
    BY <1>2, <1>11, <2>2 DEF FinalizeCommit
<1>12. ASSUME NEW q \in Requests, NEW k \in Revisions, NEW r \in RowData,
              EditCheck(q, k, r)
       PROVE  KeptFrozen(i)
  <2> DEFINE w == [op |-> "edit", revision |-> k, rows |-> r]
  <2>1. k # i
    BY <1>1, <1>12 DEF EditCheck, RowMutable
  <2>2. w \notin Forms /\ w.revision # i
    BY <2>1 DEF Forms
  <2> QED
    BY <1>1, <1>12, <2>2, LeavingAlone DEF EditCheck, revisionVars, SameIdentity
<1>13. ASSUME NEW q \in Requests, EditWrite(q) PROVE KeptFrozen(i)
  <2>1. /\ \A p \in Requests \ {q} : request'[p] = request[p]
        /\ request'[q] = None
    BY <1>13 DEF EditWrite, Ends, Becomes, TypeOK
  <2>2. LateEditors(i)' = LateEditors(i) \ {q}
    BY <2>1 DEF LateEditors, Doing
  <2>3. SameIdentity(i) /\ i \in Frozen'
    BY <1>1, <1>13 DEF EditWrite, Frozen, Present, SameIdentity
  <2>4. LateForms(i)' \subseteq LateForms(i)
    BY <2>1, <2>3 DEF LateForms, Doing, SameIdentity
  <2>5. rows'[i] # rows[i] => q \in LateEditors(i)
    BY <1>1, <1>13 DEF EditWrite, LateEditors, TypeOK
  <2> QED
    BY <2>2, <2>3, <2>4, <2>5 DEF KeptFrozen
<1>14. ASSUME NEW q \in Requests, NEW r \in RoomData, FurnishCheck(q, r)
       PROVE  KeptFrozen(i)
  <2>1. [op |-> "furnish", room |-> r] \notin Editing \cup Forms
    BY DEF Editing, Forms
  <2> QED
    BY <1>4, <1>14, <2>1 DEF FurnishCheck
<1>15. ASSUME NEW q \in Requests, NEW k \in Present, NEW w \in FormsOf(k),
              FormCheck(q, w)
       PROVE  KeptFrozen(i)
  <2>1. w \in Forms /\ w.revision = k
    BY FormsOfType DEF FormsOf
  <2>2. w \notin Editing
    BY <2>1 DEF Editing, Forms
  <2>3. k = i => Confirms(w, i)
    BY <1>1, <1>15, <2>1 DEF FormCheck, Savable, Confirms, Immutable
  <2> QED
    BY <1>1, <1>15, <2>1, <2>2, <2>3, LeavingAlone
    DEF FormCheck, revisionVars, SameIdentity
<1>16. ASSUME NEW q \in Requests, FormWrite(q) PROVE KeptFrozen(i)
  <2>1. PICK f \in Forms : f = request[q]
    BY <1>16 DEF FormWrite, Doing
  <2>2. /\ \A p \in Requests \ {q} : request'[p] = request[p]
        /\ request'[q] = None
    BY <1>16 DEF FormWrite, Ends, Becomes, TypeOK
  <2>3. LateEditors(i)' \subseteq LateEditors(i)
    BY <2>2 DEF LateEditors, Doing
  <2>4. SameIdentity(i) => LateForms(i)' \subseteq LateForms(i)
    BY <2>2 DEF LateForms, Doing, SameIdentity
  <2>5. rows'[i] = rows[i]
    BY <1>16 DEF FormWrite
  <2>6. ASSUME i \notin Frozen' \/ ~SameIdentity(i)
        PROVE  q \in LateForms(i)
    <3>1. /\ status' = [status EXCEPT ![f.revision] = f.status]
          /\ term' = [term EXCEPT ![f.revision] = f.term]
          /\ number' = [number EXCEPT ![f.revision] = f.number]
          /\ hash' = [hash EXCEPT ![f.revision] = f.hash]
      BY <1>16, <2>1 DEF FormWrite
    <3>2. status'[i] \notin Immutable \/ ~SameIdentity(i)
      BY <1>1, <2>6 DEF Frozen, Present, Immutable
    <3>3. f.revision = i
      BY <1>1, <3>1, <3>2 DEF TypeOK, SameIdentity
    <3>4. ~Confirms(f, i)
      BY <1>1, <3>1, <3>2, <3>3 DEF TypeOK, SameIdentity, Confirms
    <3> QED
      BY <1>16, <2>1, <3>3, <3>4 DEF FormWrite, LateForms, Confirms
  <2>7. Idle(q)'
    BY <2>2 DEF Idle
  <2> QED
    BY <2>3, <2>4, <2>5, <2>6, <2>7 DEF KeptFrozen
<1> QED
  BY <1>3, <1>5, <1>6, <1>7, <1>8, <1>9, <1>10, <1>11, <1>12, <1>13, <1>14,
     <1>15, <1>16
  DEF Next, Import, Administer

\* Once a revision is immutable only requests that passed their check before can
\* change its rows, its term, number or hash, or take its status back, each of
\* them once: nobody else passes a check again.
THEOREM RevisionsStayFrozen == Spec => FrozenExceptLateWriters
<1>1. Init => TypeOK /\ LockInv
  BY InitTypeOK DEF Init, LockInv, Doing
<1>2. (TypeOK /\ LockInv) /\ [Next]_vars => (TypeOK /\ LockInv)'
  BY NextTypeOK, NextLockInv
<1>3. (TypeOK /\ LockInv) /\ (TypeOK /\ LockInv)' /\ [Next]_vars =>
        [\A i \in Frozen :
           /\ LateEditors(i)' \subseteq LateEditors(i)
           /\ SameIdentity(i) => LateForms(i)' \subseteq LateForms(i)
           /\ i \notin Frozen' \/ ~SameIdentity(i) =>
                \E q \in LateForms(i) : Idle(q)'
           /\ rows'[i] # rows[i] => LateEditors(i)' # LateEditors(i)]_vars
  BY FrozenStep DEF KeptFrozen
<1> QED
  BY <1>1, <1>2, <1>3, PTL DEF Spec, FrozenExceptLateWriters

-----------------------------------------------------------------------------
(* The room of the catalog. *)

Catalogs(q) == Doing(q, Importing) /\ request[q].at = "cataloged"
RoomOf(q) == Sheets[request[q].batch[2]].room

\* Every revision descends from an import, so as soon as there is any revision
\* an immutable one refers to the room; an import that wrote the room is alone
\* and, if a revision was immutable, wrote what was there.
RoomInv ==
  /\ Present # {} => \E b \in Batches : made[b] # None
  /\ \A p, q \in Requests : Catalogs(p) /\ Catalogs(q) => p = q
  /\ \A q \in Requests : Catalogs(q) /\ Frozen # {} => RoomOf(q) = room

LEMMA SomeFrozen ==
  ASSUME ImportInv, RoomInv, Present # {}
  PROVE  Frozen # {}
<1>1. PICK b \in Batches : made[b] # None
  BY DEF RoomInv
<1>2. made[b] \in Present /\ status[made[b]] \in Immutable
  BY <1>1, MadeIsPresent DEF ImportInv, ImportsAreKept
<1> QED
  BY <1>2 DEF Frozen

\* A step that adds no revision, keeps the room and lets no import write it.
LEMMA KeepingRoom ==
  ASSUME ImportInv, RoomInv, Present' = Present, UNCHANGED <<made, room>>,
         NEW q \in Requests, NEW w, Becomes(q, w),
         ~(w # None /\ w \in Importing /\ w.at = "cataloged")
  PROVE  RoomInv'
<1>1. /\ \A p \in Requests \ {q} : request'[p] = request[p]
      /\ request'[q] = w
  BY DEF Becomes, ImportInv, TypeOK
<1>2. \A p \in Requests :
        Catalogs(p)' => Catalogs(p) /\ RoomOf(p)' = RoomOf(p)
  BY <1>1 DEF Catalogs, Doing, RoomOf
<1>3. Frozen' # {} => Frozen # {}
  BY SomeFrozen DEF Frozen
<1>4. \A p \in Requests : Catalogs(p)' /\ Frozen' # {} => RoomOf(p)' = room'
  BY <1>2, <1>3 DEF RoomInv
<1>5. \A p, r \in Requests : Catalogs(p)' /\ Catalogs(r)' => p = r
  BY <1>2 DEF RoomInv
<1>6. Present' # {} => \E b \in Batches : made'[b] # None
  BY DEF RoomInv
<1> QED
  BY <1>4, <1>5, <1>6 DEF RoomInv

LEMMA NextRoomInv ==
  ASSUME ImportInv, RoomInv, [Next]_vars
  PROVE  RoomInv'
<1>1. TypeOK /\ TypeOK'
  BY NextTypeOK DEF ImportInv
<1>2. ASSUME NEW q \in Requests, NEW w, Becomes(q, w),
             UNCHANGED <<revisionVars, made, room>>, w \notin Importing
      PROVE  RoomInv'
  BY <1>2, KeepingRoom DEF revisionVars, Present
<1>3. None \notin Importing
  BY DatasetAssumption DEF Work
<1>4. ASSUME NEW q \in Requests, Abandon(q) \/ PreviewWrite(q)
      PROVE  RoomInv'
  BY <1>2, <1>3, <1>4 DEF Abandon, PreviewWrite, Ends, batchVars
<1>5. ASSUME NEW q \in Requests, NEW b \in Batches, PreviewRead(q, b)
      PROVE  RoomInv'
  <2>1. [op |-> "preview", batch |-> b, fresh |-> staged[b] = "ABSENT"]
          \notin Importing
    BY DEF Importing
  <2> QED
    BY <1>2, <1>5, <2>1 DEF PreviewRead, batchVars
<1>6. ASSUME NEW q \in Requests, NEW b \in Batches, ImportRead(q, b)
      PROVE  RoomInv'
  <2>1. PICK n : Becomes(q, [op |-> "import", batch |-> b, number |-> n,
                             at |-> "numbered"])
    BY <1>6 DEF ImportRead
  <2> QED
    BY <1>6, <2>1, KeepingRoom
    DEF ImportRead, revisionVars, batchVars, Present
<1>7. ASSUME NEW q \in Requests, ImportInsert(q) PROVE RoomInv'
  <2> DEFINE w == [request[q] EXCEPT !.at = "inserted"]
  <2>1. Becomes(q, w) /\ request[q] \in Importing
    BY <1>7 DEF ImportInsert, Becomes, Doing
  <2>2. w.at = "inserted"
    BY <2>1 DEF Importing
  <2> QED
    BY <1>7, <2>1, <2>2, KeepingRoom
    DEF ImportInsert, revisionVars, batchVars, Present
<1>8. ASSUME NEW q \in Requests, ImportCatalog(q) PROVE RoomInv'
  <2>1. \A p \in Requests : ~Catalogs(p)
    BY <1>8 DEF ImportCatalog, RoomLocked, Catalogs
  <2>2. /\ \A p \in Requests \ {q} : request'[p] = request[p]
        /\ request'[q].batch = request[q].batch
    BY <1>1, <1>8 DEF ImportCatalog, Doing, Importing, TypeOK
  <2>3. \A p \in Requests : Catalogs(p)' => p = q
    BY <2>1, <2>2 DEF Catalogs, Doing
  <2>4. RoomOf(q)' = RoomOf(q) /\ Frozen' = Frozen /\ Present' = Present
    BY <1>8, <2>2 DEF ImportCatalog, RoomOf, Frozen, Present, revisionVars
  <2>5. Frozen # {} => RoomOf(q) = room
    BY <1>8 DEF ImportCatalog, Describable, RoomOf
  <2>6. UNCHANGED <<made, room>>
    BY <1>8 DEF ImportCatalog, batchVars
  <2>7. \A p \in Requests : Catalogs(p)' /\ Frozen' # {} => RoomOf(p)' = room'
    BY <2>3, <2>4, <2>5, <2>6
  <2>8. Present' # {} => \E b \in Batches : made'[b] # None
    BY <2>4, <2>6 DEF RoomInv
  <2> QED
    BY <2>3, <2>7, <2>8 DEF RoomInv
<1>9. ASSUME NEW q \in Requests, ImportCommit(q) PROVE RoomInv'
  <2>1. PICK c \in Batches, i \in Revisions \ Present :
          made' = [made EXCEPT ![c] = i]
    BY <1>9 DEF ImportCommit, Doing, Importing
  <2>2. made'[c] # None
    BY <1>1, <2>1, DatasetAssumption DEF TypeOK
  <2>3. /\ \A p \in Requests \ {q} : request'[p] = request[p]
        /\ request'[q] = None
    BY <1>1, <1>9 DEF ImportCommit, Ends, Becomes, TypeOK
  <2>4. Catalogs(q)
    BY <1>9 DEF ImportCommit, Catalogs
  <2>5. \A p \in Requests : ~Catalogs(p)'
    BY <2>3, <2>4 DEF RoomInv, Catalogs, Doing
  <2> QED
    BY <2>2, <2>5 DEF RoomInv
<1>10. ASSUME NEW i \in Revisions, NEW j \in Revisions, NEW t \in Terms,
              Clone(i, j, t)
       PROVE  RoomInv'
  <2>1. i \in Frozen /\ Frozen # {} /\ Present # {}
    BY <1>10 DEF Clone, Frozen
  <2>2. UNCHANGED <<made, room, request>>
    BY <1>10 DEF Clone, batchVars
  <2>3. \A p \in Requests :
          (Catalogs(p)' <=> Catalogs(p)) /\ RoomOf(p)' = RoomOf(p)
    BY <2>2 DEF Catalogs, Doing, RoomOf
  <2> QED
    BY <2>1, <2>2, <2>3 DEF RoomInv
<1>11. ASSUME NEW q \in Requests, NEW i \in Revisions,
              FinalizeBuild(q, i)
       PROVE  RoomInv'
  <2>1. PICK w : /\ Becomes(q, w) /\ w.op = "finalize"
                 /\ UNCHANGED <<revisionVars, batchVars, room>>
    BY <1>11 DEF FinalizeBuild
  <2>2. w \notin Importing
    BY <2>1 DEF Importing
  <2> QED
    BY <1>2, <2>1, <2>2 DEF batchVars
<1>12. ASSUME NEW q \in Requests, Doing(q, Finalizing) \/ Doing(q, Forms)
       PROVE  request[q].revision \in Present
  BY <1>12 DEF Doing, Idle, ImportInv, WorkIsHarmless, Harmless
<1>13. ASSUME NEW q \in Requests, FinalizeCommit(q) PROVE RoomInv'
  <2>1. request[q].revision \in Present
    BY <1>12, <1>13 DEF FinalizeCommit
  <2>2. Present' = Present
    BY <1>1, <1>13, <2>1 DEF FinalizeCommit, Present, TypeOK
  <2> QED
    BY <1>3, <1>13, <2>2, KeepingRoom DEF FinalizeCommit, Ends, batchVars
<1>14. ASSUME NEW q \in Requests, FormWrite(q) PROVE RoomInv'
  <2>1. request[q].revision \in Present /\ request[q].status \in Statuses
    BY <1>12, <1>14 DEF FormWrite, Doing, Forms
  <2>2. Present' = Present
    BY <1>1, <1>14, <2>1 DEF FormWrite, Present, TypeOK, Statuses
  <2> QED
    BY <1>3, <1>14, <2>2, KeepingRoom DEF FormWrite, Ends, batchVars
<1>15. ASSUME NEW q \in Requests, NEW i \in Revisions, NEW r \in RowData,
              EditCheck(q, i, r)
       PROVE  RoomInv'
  <2>1. [op |-> "edit", revision |-> i, rows |-> r] \notin Importing
    BY DEF Importing
  <2> QED
    BY <1>2, <1>15, <2>1 DEF EditCheck, batchVars
<1>16. ASSUME NEW q \in Requests, EditWrite(q) PROVE RoomInv'
  <2>1. Present' = Present
    BY <1>16 DEF EditWrite, Present
  <2> QED
    BY <1>3, <1>16, <2>1, KeepingRoom DEF EditWrite, Ends, batchVars
<1>17. ASSUME NEW q \in Requests, NEW r \in RoomData, FurnishCheck(q, r)
       PROVE  RoomInv'
  <2>1. [op |-> "furnish", room |-> r] \notin Importing
    BY DEF Importing
  <2> QED
    BY <1>2, <1>17, <2>1 DEF FurnishCheck, batchVars
<1>18. ASSUME NEW q \in Requests, FurnishWrite(q) PROVE RoomInv'
  <2>1. /\ \A p \in Requests \ {q} : request'[p] = request[p]
        /\ request'[q] = None
    BY <1>1, <1>18 DEF FurnishWrite, Ends, Becomes, TypeOK
  <2>2. \A p \in Requests : ~Catalogs(p)
    BY <1>18 DEF FurnishWrite, RoomLocked, Catalogs
  <2>3. \A p \in Requests : ~Catalogs(p)'
    BY <2>1, <2>2 DEF Catalogs, Doing
  <2>4. Present' = Present /\ made' = made
    BY <1>18 DEF FurnishWrite, Present, revisionVars, batchVars
  <2> QED
    BY <2>3, <2>4 DEF RoomInv
<1>19. ASSUME NEW q \in Requests, NEW i \in Present, NEW w \in FormsOf(i),
              FormCheck(q, w)
       PROVE  RoomInv'
  <2>1. w \notin Importing
    BY DEF FormsOf, Importing
  <2> QED
    BY <1>2, <1>19, <2>1 DEF FormCheck, batchVars
<1>20. CASE UNCHANGED vars
  <2>1. Present' = Present /\ Frozen' = Frozen
    BY <1>20 DEF vars, Present, Frozen
  <2>2. \A p \in Requests :
          (Catalogs(p)' <=> Catalogs(p)) /\ RoomOf(p)' = RoomOf(p)
    BY <1>20 DEF vars, Catalogs, Doing, RoomOf
  <2> QED
    BY <1>20, <2>1, <2>2 DEF vars, RoomInv
<1> QED
  BY <1>4, <1>5, <1>6, <1>7, <1>8, <1>9, <1>10, <1>11, <1>13, <1>14, <1>15,
     <1>16, <1>17, <1>18, <1>19, <1>20
  DEF Next, Import, Administer

LEMMA RoomStep ==
  ASSUME ImportInv, RoomInv, Next, Frozen # {}
  PROVE  /\ room' # room => \E q \in Requests : Doing(q, Furnishing) /\ Idle(q)'
         /\ \A q \in Requests :
              Idle(q) /\ Doing(q, Furnishing)' => request'[q].room = room
<1>1. TypeOK /\ None \notin Furnishing
  BY DatasetAssumption DEF ImportInv, Work
<1>2. ASSUME room' # room
      PROVE  \E q \in Requests : Doing(q, Furnishing) /\ Idle(q)'
  <2>1. \/ \E q \in Requests : ImportCommit(q)
        \/ \E q \in Requests : FurnishWrite(q)
    BY <1>2
    DEF Next, Import, Administer, Abandon, PreviewRead, PreviewWrite,
        ImportRead, ImportInsert, ImportCatalog, FinalizeBuild, FinalizeCommit,
        EditCheck, EditWrite, FurnishCheck, FormCheck, FormWrite, Clone
  <2>2. ASSUME NEW q \in Requests, ImportCommit(q) PROVE FALSE
    BY <1>2, <2>2 DEF ImportCommit, RoomInv, Catalogs, RoomOf
  <2>3. ASSUME NEW q \in Requests, FurnishWrite(q)
        PROVE  Doing(q, Furnishing) /\ Idle(q)'
    BY <1>1, <2>3 DEF FurnishWrite, Ends, Becomes, Idle, TypeOK
  <2> QED
    BY <2>1, <2>2, <2>3
<1>3. ASSUME NEW q \in Requests, Idle(q), Doing(q, Furnishing)'
      PROVE  request'[q].room = room
  <2>1. request[q] = None /\ request'[q] # None /\ request'[q] \in Furnishing
    BY <1>3 DEF Idle, Doing
  <2>2. request'[q].op = "furnish"
    BY <2>1 DEF Furnishing
  <2>3. ASSUME NEW p \in Requests, NEW w, Becomes(p, w)
        PROVE  p = q /\ request'[q] = w
    BY <1>1, <2>1, <2>3 DEF Becomes, TypeOK
  <2>4. ASSUME NEW p \in Requests, NEW w, Becomes(p, w), w.op # "furnish"
        PROVE  FALSE
    BY <2>2, <2>3, <2>4
  <2>5. ~\E p \in Requests : Ends(p)
    BY <2>1, <2>3 DEF Ends
  <2>6. ~\E i, j \in Revisions, t \in Terms : Clone(i, j, t)
    BY <2>1 DEF Clone
  <2>7. ~\E p \in Requests, b \in Batches : PreviewRead(p, b) \/ ImportRead(p, b)
    BY <2>4 DEF PreviewRead, ImportRead
  <2>8. ~\E p \in Requests, i \in Revisions : FinalizeBuild(p, i)
    BY <2>4 DEF FinalizeBuild
  <2>9. ~\E p \in Requests, i \in Revisions, r \in RowData : EditCheck(p, i, r)
    BY <2>4 DEF EditCheck
  <2>10. ASSUME NEW p \in Requests, ImportInsert(p) \/ ImportCatalog(p)
         PROVE  FALSE
    <3>1. p # q
      BY <2>1, <2>10 DEF ImportInsert, ImportCatalog, Doing
    <3>2. request'[q] = request[q]
      BY <1>1, <2>10, <3>1 DEF ImportInsert, ImportCatalog, TypeOK
    <3> QED
      BY <2>1, <3>2
  <2>11. ASSUME NEW p \in Requests, NEW i \in Present, NEW w \in FormsOf(i),
                FormCheck(p, w)
         PROVE  FALSE
    BY <2>4, <2>11 DEF FormCheck, FormsOf
  <2>12. PICK p \in Requests, r \in RoomData : FurnishCheck(p, r)
    BY <2>5, <2>6, <2>7, <2>8, <2>9, <2>10, <2>11
    DEF Next, Import, Administer, Abandon, PreviewWrite, ImportCommit,
        FinalizeCommit, EditWrite, FurnishWrite, FormWrite
  <2>13. r = room /\ Becomes(p, [op |-> "furnish", room |-> r])
    BY <2>12 DEF FurnishCheck, Describable
  <2>14. request'[q] = [op |-> "furnish", room |-> r]
    BY <2>3, <2>13
  <2> QED
    BY <2>13, <2>14
<1> QED
  BY <1>2, <1>3

\* While any revision is immutable, imports leave the room's description alone,
\* and the catalog page can only start to repeat it.
THEOREM RoomStaysFrozen == Spec => RoomFrozenExceptLatePages
<1>1. Init => ImportInv /\ RoomInv
  <2> SUFFICES ASSUME Init PROVE ImportInv /\ RoomInv
    OBVIOUS
  <2>1. Present = {} /\ \A q \in Requests : Idle(q)
    BY DEF Init, Present, Idle
  <2>2. ImportInv
    BY <2>1, InitTypeOK DEF Init, ImportInv, ImportsAreKept, WorkIsHarmless
  <2> QED
    BY <2>1, <2>2 DEF RoomInv, Catalogs, Doing, Idle
<1>2. (ImportInv /\ RoomInv) /\ [Next]_vars => (ImportInv /\ RoomInv)'
  BY NextImportInv, NextRoomInv
<1>3. (ImportInv /\ RoomInv) /\ [Next]_vars =>
        [Frozen # {} =>
           /\ room' # room =>
                \E q \in Requests : Doing(q, Furnishing) /\ Idle(q)'
           /\ \A q \in Requests :
                Idle(q) /\ Doing(q, Furnishing)' => request'[q].room = room]_vars
  BY RoomStep
<1> QED
  BY <1>1, <1>2, <1>3, PTL DEF Spec, RoomFrozenExceptLatePages
=============================================================================
