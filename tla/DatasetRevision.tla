---------------------------- MODULE DatasetRevision ----------------------------
(***************************************************************************)
(* Workbook imports and dataset revisions: preview and commit of an        *)
(* ImportBatch (services/imports.py), cloning and finalization             *)
(* (term_cloning.py, revision_lifecycle.py), and the administration pages  *)
(* of revisions, of the rows bound to them and of the shared catalog.      *)
(* Transactions run at READ COMMITTED: a request that checked a status     *)
(* without a lock may write after the status changed.  A request that      *)
(* raises or dies leaves no trace.  The rows of a revision are one value,  *)
(* and the catalog is one room that every workbook lists.                  *)
(***************************************************************************)
EXTENDS Naturals, FiniteSets

CONSTANTS
  Terms,       \* academic terms that may exist
  Home,        \* the term that exists from the beginning
  Workbooks,   \* uploaded files, by their bytes
  Batches,     \* import batches, each by its term and its workbook
  Clean,       \* the workbooks whose preview finds no issue
  RowData,     \* what the rows bound to a revision may say
  RoomData,    \* what the catalog may say of the room
  Sheets,      \* what each workbook says
  Buildable,   \* the row data that build_problem accepts
  Revisions,   \* primary keys of TermDatasetRevision
  Requests,    \* web requests that may be in flight at once
  FormNumbers, \* numbers that may be typed on the page of a revision
  FormHashes,  \* hashes that may be typed there
  None         \* nothing: no revision, no room, no hash, no request

Statuses == {"DRAFT", "VALIDATED", "COMMITTED", "SUPERSEDED"}
Immutable == {"COMMITTED", "SUPERSEDED"}
Contents == [rows: RowData, room: RoomData]
\* The hash of an import is of its sheets, that of a clone of its problem.
Hashes == [of: {"sheets", "problem"}, content: Contents]

Previewing == [op: {"preview"}, batch: Batches, fresh: BOOLEAN]
Importing == [op: {"import"}, batch: Batches, number: Nat \ {0},
              at: {"numbered", "inserted", "cataloged"}]
Finalizing == [op: {"finalize"}, revision: Revisions, content: Contents]
Editing == [op: {"edit"}, revision: Revisions, rows: RowData]
Furnishing == [op: {"furnish"}, room: RoomData]
Forms == [op: {"form"}, revision: Revisions, status: Statuses, term: Terms,
          number: Nat, hash: Hashes \cup {None}]
Work == Previewing \cup Importing \cup Finalizing \cup Editing
          \cup Furnishing \cup Forms

ASSUME DatasetAssumption ==
  /\ IsFiniteSet(Revisions)
  /\ Home \in Terms
  /\ Batches \subseteq Terms \X Workbooks
  /\ Clean \subseteq Workbooks
  /\ Buildable \subseteq RowData
  /\ Sheets \in [Workbooks -> Contents]
  /\ FormNumbers \subseteq Nat
  /\ FormHashes \subseteq Hashes \cup {None}
  /\ None \notin Revisions \cup RoomData \cup Hashes \cup Work

VARIABLES
  status,   \* TermDatasetRevision.status, "ABSENT" before the row is committed
  term,     \* the term of a revision
  number,   \* its revision_number
  hash,     \* its content_hash, None when blank
  rows,     \* the rows bound to it
  keys,     \* the term and number from which commit_import derived the stable
            \* keys of its meetings, None when they were drawn at random
  terms,    \* the rows of AcademicTerm
  staged,   \* ImportBatch.status of a term and workbook
  made,     \* its committed_revision
  room,     \* the room's catalog row, None when there is none
  request   \* what each request is doing

revisionVars == <<status, term, number, hash, rows, keys, terms>>
batchVars == <<staged, made>>
vars == <<status, term, number, hash, rows, keys, terms, staged, made, room,
          request>>

TypeOK ==
  /\ status \in [Revisions -> Statuses \cup {"ABSENT"}]
  /\ term \in [Revisions -> Terms]
  /\ number \in [Revisions -> Nat]
  /\ hash \in [Revisions -> Hashes \cup {None}]
  /\ rows \in [Revisions -> RowData]
  /\ keys \in [Revisions -> (Terms \X Nat) \cup {None}]
  /\ terms \subseteq Terms
  /\ staged \in [Batches -> {"ABSENT", "INVALID", "PREVIEWED", "COMMITTED"}]
  /\ made \in [Batches -> Revisions \cup {None}]
  /\ room \in RoomData \cup {None}
  /\ request \in [Requests -> Work \cup {None}]

\* The catalog may hold the room already; term, number and rows of an absent
\* revision mean nothing.
Init ==
  /\ status = [i \in Revisions |-> "ABSENT"]
  /\ term = [i \in Revisions |-> Home]
  /\ number = [i \in Revisions |-> 0]
  /\ hash = [i \in Revisions |-> None]
  /\ \E r \in RowData : rows = [i \in Revisions |-> r]
  /\ keys = [i \in Revisions |-> None]
  /\ terms = {Home}
  /\ staged = [b \in Batches |-> "ABSENT"]
  /\ made = [b \in Batches |-> None]
  /\ room \in RoomData \cup {None}
  /\ request = [q \in Requests |-> None]

-----------------------------------------------------------------------------
Present == {i \in Revisions : status[i] # "ABSENT"}
Frozen == {i \in Present : status[i] \in Immutable}
Numbers(t) == {number[i] : i \in {j \in Present : term[j] = t}}

Doing(q, W) == request[q] # None /\ request[q] \in W
Idle(q) == request[q] = None
Becomes(q, w) == request' = [request EXCEPT ![q] = w]
Ends(q) == Becomes(q, None)

\* Row locks: of the batch a commit works on, of the revision being finalized,
\* and of the room a commit has written.
BatchLocked(b) == \E q \in Requests : Doing(q, Importing) /\ request[q].batch = b
RevisionLocked(i) ==
  \E q \in Requests : Doing(q, Finalizing) /\ request[q].revision = i
RoomLocked ==
  \E q \in Requests : Doing(q, Importing) /\ request[q].at = "cataloged"
\* An INSERT waits while another transaction has inserted the same unique key.
Inserting(b) ==
  \E q \in Requests : Doing(q, Previewing) /\ request[q].batch = b /\ request[q].fresh
NumberClaimed(t, n) ==
  \E q \in Requests :
    /\ Doing(q, Importing) /\ request[q].at # "numbered"
    /\ request[q].batch[1] = t /\ request[q].number = n

\* The table without uniq_term_revision_number and
\* uniq_term_revision_content_hash.
Unique_NoIndex(i, t, n, h) == TRUE
\* No committed row but i has this number, or this hash unless blank, in the
\* term.
Unique(i, t, n, h) ==
  \A j \in Present \ {i} :
    term[j] = t => number[j] # n /\ (h # None => hash[j] # h)

\* A request raises, is rolled back by the database, or its process dies.
Abandon(q) ==
  /\ ~Idle(q)
  /\ Ends(q)
  /\ UNCHANGED <<revisionVars, batchVars, room>>

-----------------------------------------------------------------------------
\* preview_workbook reads or creates the batch; a committed one is returned.
PreviewRead(q, b) ==
  /\ Idle(q)
  /\ b[1] \in terms
  /\ ~Inserting(b)
  /\ staged[b] # "COMMITTED"
  /\ Becomes(q, [op |-> "preview", batch |-> b, fresh |-> staged[b] = "ABSENT"])
  /\ UNCHANGED <<revisionVars, batchVars, room>>

\* It stores what it parsed with update_fields, whatever the status is by then.
PreviewWrite(q) ==
  /\ Doing(q, Previewing)
  /\ LET b == request[q].batch IN
       /\ ~BatchLocked(b)
       /\ staged' = [staged EXCEPT ![b] =
                       IF b[2] \in Clean THEN "PREVIEWED" ELSE "INVALID"]
  /\ Ends(q)
  /\ UNCHANGED <<revisionVars, made, room>>

-----------------------------------------------------------------------------
\* What Max + 1 gives, read without a lock on the term; 1 in an empty term.
NextNumber(t, n) ==
  /\ n \in {m + 1 : m \in {0} \cup Numbers(t)}
  /\ \A m \in Numbers(t) : m < n

\* commit_import locks the batch, wants a clean preview that has no revision
\* yet, and reads the next number.
ImportRead(q, b) ==
  /\ Idle(q)
  /\ ~BatchLocked(b)
  /\ staged[b] = "PREVIEWED" /\ made[b] = None
  /\ \E n \in {m + 1 : m \in {0} \cup Numbers(b[1])} :
       /\ NextNumber(b[1], n)
       /\ Becomes(q, [op |-> "import", batch |-> b, number |-> n,
                      at |-> "numbered"])
  /\ UNCHANGED <<revisionVars, batchVars, room>>

\* The draft revision is inserted, without a hash; a number in use raises.
ImportInsert(q) ==
  /\ Doing(q, Importing)
  /\ request[q].at = "numbered"
  /\ LET t == request[q].batch[1]
         n == request[q].number
     IN ~NumberClaimed(t, n) /\ Unique(None, t, n, None)
  /\ request' = [request EXCEPT ![q].at = "inserted"]
  /\ UNCHANGED <<revisionVars, batchVars, room>>

\* A catalog row that anyone may describe anew.
Describable_AnyTime(r) == TRUE
\* HistoricalCatalogModel.save: a room that an immutable revision refers to
\* keeps its description.
Describable(r) == Frozen # {} => r = room

\* update_or_create of the catalog, whose row stays locked until the end.
ImportCatalog(q) ==
  /\ Doing(q, Importing)
  /\ request[q].at = "inserted"
  /\ ~RoomLocked
  /\ Describable(Sheets[request[q].batch[2]].room)
  /\ request' = [request EXCEPT ![q].at = "cataloged"]
  /\ UNCHANGED <<revisionVars, batchVars, room>>

SheetsHash(w) == [of |-> "sheets", content |-> Sheets[w]]

\* The rows, with meetings keyed by uuid5 of term, number and meeting (the
\* workbooks list the same meeting), the hash, the statuses, and the commit.
ImportCommit(q) ==
  /\ Doing(q, Importing)
  /\ request[q].at = "cataloged"
  /\ LET b == request[q].batch
         n == request[q].number
         h == SheetsHash(b[2])
     IN /\ \A j \in Present : keys[j] # <<b[1], n>>
        /\ \E i \in Revisions \ Present :
             /\ Unique(i, b[1], n, h)
             /\ status' = [status EXCEPT ![i] = "COMMITTED"]
             /\ term' = [term EXCEPT ![i] = b[1]]
             /\ number' = [number EXCEPT ![i] = n]
             /\ hash' = [hash EXCEPT ![i] = h]
             /\ rows' = [rows EXCEPT ![i] = Sheets[b[2]].rows]
             /\ keys' = [keys EXCEPT ![i] = <<b[1], n>>]
             /\ made' = [made EXCEPT ![b] = i]
        /\ staged' = [staged EXCEPT ![b] = "COMMITTED"]
        /\ room' = Sheets[b[2]].room
  /\ Ends(q)
  /\ UNCHANGED terms

-----------------------------------------------------------------------------
\* clone_term_revision: a new term, and in it a draft with the source's rows,
\* whose meetings get new keys.
Clone(i, j, t) ==
  /\ i \in Present
  /\ ~RevisionLocked(i)
  /\ status[i] \in Immutable
  /\ t \notin terms
  /\ j \notin Present
  /\ status' = [status EXCEPT ![j] = "DRAFT"]
  /\ term' = [term EXCEPT ![j] = t]
  /\ number' = [number EXCEPT ![j] = 1]
  /\ hash' = [hash EXCEPT ![j] = None]
  /\ rows' = [rows EXCEPT ![j] = rows[i]]
  /\ keys' = [keys EXCEPT ![j] = None]
  /\ terms' = terms \cup {t}
  /\ UNCHANGED <<batchVars, room, request>>

\* validate_and_commit_revision locks the draft and builds its problem.
FinalizeBuild(q, i) ==
  /\ Idle(q)
  /\ ~RevisionLocked(i)
  /\ status[i] = "DRAFT"
  /\ rows[i] \in Buildable /\ room # None
  /\ Becomes(q, [op |-> "finalize", revision |-> i,
                 content |-> [rows |-> rows[i], room |-> room]])
  /\ UNCHANGED <<revisionVars, batchVars, room>>

\* It stores the hash of the problem it built, and commits.
FinalizeCommit(q) ==
  /\ Doing(q, Finalizing)
  /\ LET i == request[q].revision
         h == [of |-> "problem", content |-> request[q].content]
     IN /\ Unique(i, term[i], number[i], h)
        /\ status' = [status EXCEPT ![i] = "COMMITTED"]
        /\ hash' = [hash EXCEPT ![i] = h]
  /\ Ends(q)
  /\ UNCHANGED <<term, number, rows, keys, terms, batchVars, room>>

-----------------------------------------------------------------------------
\* A row whose revision's status nobody looks at.
RowMutable_Unchecked(i) == TRUE
RowMutable(i) == status[i] \notin Immutable

\* RevisionBoundModel.save looks at the status without a lock...
EditCheck(q, i, r) ==
  /\ Idle(q)
  /\ i \in Present
  /\ RowMutable(i)
  /\ Becomes(q, [op |-> "edit", revision |-> i, rows |-> r])
  /\ UNCHANGED <<revisionVars, batchVars, room>>

\* ... and writes the row, which no lock on the revision prevents.
EditWrite(q) ==
  /\ Doing(q, Editing)
  /\ rows' = [rows EXCEPT ![request[q].revision] = request[q].rows]
  /\ Ends(q)
  /\ UNCHANGED <<status, term, number, hash, keys, terms, batchVars, room>>

\* The catalog page: the check of HistoricalCatalogModel.save...
FurnishCheck(q, r) ==
  /\ Idle(q)
  /\ room # None
  /\ Describable(r)
  /\ Becomes(q, [op |-> "furnish", room |-> r])
  /\ UNCHANGED <<revisionVars, batchVars, room>>

\* ... and its UPDATE, which waits for a commit that wrote the row.
FurnishWrite(q) ==
  /\ Doing(q, Furnishing)
  /\ ~RoomLocked
  /\ room' = request[q].room
  /\ Ends(q)
  /\ UNCHANGED <<revisionVars, batchVars>>

-----------------------------------------------------------------------------
\* What the administration page of a revision may be sent: any status and
\* existing term, and a number and a hash that are the row's or are typed (as
\* are those that a stale page still shows).
FormsOf(i) ==
  [op: {"form"}, revision: {i}, status: Statuses, term: terms,
   number: FormNumbers \cup {number[i]}, hash: FormHashes \cup {hash[i]}]

\* A revision that may be given anything.
Savable_Anything(w) == TRUE
\* TermDatasetRevision.save: an immutable revision keeps its term, number and
\* hash and is at most superseded.
Savable(w) ==
  LET i == w.revision IN
    status[i] \in Immutable =>
      /\ w.term = term[i] /\ w.number = number[i] /\ w.hash = hash[i]
      /\ w.status \in {status[i], "SUPERSEDED"}

\* The form looks for numbers and hashes in use, save compares with an unlocked
\* read, and clean wants a hash of what is frozen...
FormCheck(q, w) ==
  /\ Idle(q)
  /\ Unique(w.revision, w.term, w.number, w.hash)
  /\ Savable(w)
  /\ w.status \in Immutable => w.hash # None
  /\ Becomes(q, w)
  /\ UNCHANGED <<revisionVars, batchVars, room>>

\* ... and the UPDATE of all columns waits for a finalization of the row and
\* for an import that has inserted the same number, and raises when the number
\* or the hash is in use.
FormWrite(q) ==
  /\ Doing(q, Forms)
  /\ LET w == request[q]
         i == w.revision
     IN /\ ~RevisionLocked(i)
        /\ ~NumberClaimed(w.term, w.number)
        /\ Unique(i, w.term, w.number, w.hash)
        /\ status' = [status EXCEPT ![i] = w.status]
        /\ term' = [term EXCEPT ![i] = w.term]
        /\ number' = [number EXCEPT ![i] = w.number]
        /\ hash' = [hash EXCEPT ![i] = w.hash]
  /\ Ends(q)
  /\ UNCHANGED <<rows, keys, terms, batchVars, room>>

-----------------------------------------------------------------------------
Import(q) ==
  \/ \E b \in Batches : ImportRead(q, b)
  \/ ImportInsert(q)
  \/ ImportCatalog(q)
  \/ ImportCommit(q)

Administer(q) ==
  \/ \E i \in Revisions, r \in RowData : EditCheck(q, i, r)
  \/ EditWrite(q)
  \/ \E r \in RoomData : FurnishCheck(q, r)
  \/ FurnishWrite(q)
  \/ \E i \in Present : \E w \in FormsOf(i) : FormCheck(q, w)
  \/ FormWrite(q)

Next ==
  \/ \E q \in Requests :
       \/ Abandon(q)
       \/ \E b \in Batches : PreviewRead(q, b)
       \/ PreviewWrite(q)
       \/ Import(q)
       \/ \E i \in Revisions : FinalizeBuild(q, i)
       \/ FinalizeCommit(q)
       \/ Administer(q)
  \/ \E i, j \in Revisions, t \in Terms : Clone(i, j, t)

Spec == Init /\ [][Next]_vars

-----------------------------------------------------------------------------
\* What a workbook became stays: the revision of an import batch is immutable,
\* in the batch's term, hashed from the workbook's sheets and holding their
\* rows, whatever previews, forms, editors, clones and finalizations do, and
\* although a late preview may take the batch itself back to PREVIEWED.
ImportsAreKept ==
  \A b \in Batches :
    made[b] # None =>
      LET i == made[b] IN
        /\ status[i] \in Immutable
        /\ term[i] = b[1]
        /\ hash[i] = SheetsHash(b[2])
        /\ rows[i] = Sheets[b[2]].rows

\* A term and a number name one revision for good.  Imports read the maximum
\* without a lock, and drafts may be renumbered and moved to other terms
\* meanwhile, and still no two revisions of a term share a number, an import has
\* the number from which its meetings were keyed, and the number that an import
\* in progress has inserted never was that of another import: the unique stable
\* keys of its meetings cannot make it fail.
NumbersIdentify ==
  /\ \A i, j \in Present : term[i] = term[j] /\ number[i] = number[j] => i = j
  /\ \A i \in Present : keys[i] # None => keys[i] = <<term[i], number[i]>>
  /\ \A i \in Present :
       keys[i] # None => ~NumberClaimed(keys[i][1], keys[i][2])

\* Who may still write a revision after their check has passed.
LateEditors(i) ==
  {q \in Requests : Doing(q, Editing) /\ request[q].revision = i}
LateForms(i) ==
  {q \in Requests :
     /\ Doing(q, Forms) /\ request[q].revision = i
     /\ LET w == request[q] IN
          \/ w.status \notin Immutable
          \/ w.term # term[i] \/ w.number # number[i] \/ w.hash # hash[i]}
SameIdentity(i) ==
  term'[i] = term[i] /\ number'[i] = number[i] /\ hash'[i] = hash[i]

\* Once a revision is immutable, nobody passes a check that would let him write
\* its rows, its term, number or hash, or take its status back; each of those
\* who passed one before does so at most once, and nothing else changes them.
\* (A late form that rewrites the revision leaves other open forms of it late.)
FrozenExceptLateWriters ==
  [][\A i \in Frozen :
       /\ LateEditors(i)' \subseteq LateEditors(i)
       /\ SameIdentity(i) => LateForms(i)' \subseteq LateForms(i)
       /\ i \notin Frozen' \/ ~SameIdentity(i) =>
            \E q \in LateForms(i) : Idle(q)'
       /\ rows'[i] # rows[i] => LateEditors(i)' # LateEditors(i)]_vars

\* While a revision is immutable no import describes the room anew, nor can
\* the catalog page start to; only a page that passed its check before may.
RoomFrozenExceptLatePages ==
  [][Frozen # {} =>
       /\ room' # room => \E q \in Requests : Doing(q, Furnishing) /\ Idle(q)'
       /\ \A q \in Requests :
            Idle(q) /\ Doing(q, Furnishing)' => request'[q].room = room]_vars
=============================================================================
