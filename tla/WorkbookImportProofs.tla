-------------------------- MODULE WorkbookImportProofs --------------------------
(***************************************************************************)
(* For every workbook: what the preview checked is what the commit looks   *)
(* up, and every table it looks into is stored by then; what the models    *)
(* may still refuse is known; and what was committed is usable.            *)
(***************************************************************************)
EXTENDS WorkbookImport, TLAPS, WellFoundedInduction

\* The position of each sheet in the order of commit_import.
LEMMA OrderAt ==
  /\ Order[1] = "Colleges" /\ Order[2] = "Departments"
  /\ Order[3] = "Programs" /\ Order[4] = "Subjects"
  /\ Order[5] = "ProgramSubjects" /\ Order[6] = "Instructors"
  /\ Order[7] = "Rooms" /\ Order[8] = "Capabilities"
  /\ Order[9] = "LaboratoryProfiles" /\ Order[10] = "RoomCapabilities"
  /\ Order[11] = "Sections" /\ Order[12] = "RoomAuthorizations"
  /\ Order[13] = "TimeSlots" /\ Order[14] = "InstructorAvailability"
  /\ Order[15] = "RoomAvailability" /\ Order[16] = "CourseOfferings"
  /\ Order[17] = "OfferingSections" /\ Order[18] = "OfferingInstructors"
  /\ Order[19] = "MeetingRequirements" /\ Order[20] = "MeetingCapabilities"
  /\ Order[21] = "InstructorPreferences" /\ Order[22] = "Students"
  /\ Order[23] = "StudentSections" /\ Order[24] = "Locks"
  /\ Len(Order) = 24
BY DEF Order

\* The preview checks every reference that the commit looks up.
LEMMA LookupsAreChecked ==
  /\ DOMAIN Lookups = DOMAIN References
  /\ \A s \in DOMAIN Lookups : Lookups[s] = References[s]
BY DEF Lookups, References

LEMMA StoredBefore ==
  ASSUME next \in 1..24, NEW k \in 1..24, k < next
  PROVE  Order[k] \in Stored
BY DEF Stored

\* What the sheet in turn refers to is stored, one case per sheet.
LEMMA TargetsAreStored ==
  ASSUME next \in 1..24, Order[next] \in DOMAIN Lookups,
         NEW c \in DOMAIN Lookups[Order[next]]
  PROVE  Lookups[Order[next]][c] \in Stored
<1>1. CASE next = 1
  BY <1>1, OrderAt DEF Lookups
<1>2. CASE next = 2
  <2>1. Order[1] \in Stored
    BY <1>2, StoredBefore
  <2> QED
    BY <1>2, <2>1, OrderAt DEF Lookups
<1>3. CASE next = 3
  <2>1. Order[2] \in Stored
    BY <1>3, StoredBefore
  <2> QED
    BY <1>3, <2>1, OrderAt DEF Lookups
<1>4. CASE next = 4
  BY <1>4, OrderAt DEF Lookups
<1>5. CASE next = 5
  <2>1. Order[1] \in Stored /\ Order[2] \in Stored /\ Order[3] \in Stored /\ Order[4] \in Stored
    BY <1>5, StoredBefore
  <2> QED
    BY <1>5, <2>1, OrderAt DEF Lookups
<1>6. CASE next = 6
  <2>1. Order[2] \in Stored
    BY <1>6, StoredBefore
  <2> QED
    BY <1>6, <2>1, OrderAt DEF Lookups
<1>7. CASE next = 7
  <2>1. Order[1] \in Stored /\ Order[2] \in Stored
    BY <1>7, StoredBefore
  <2> QED
    BY <1>7, <2>1, OrderAt DEF Lookups
<1>8. CASE next = 8
  BY <1>8, OrderAt DEF Lookups
<1>9. CASE next = 9
  <2>1. Order[7] \in Stored
    BY <1>9, StoredBefore
  <2> QED
    BY <1>9, <2>1, OrderAt DEF Lookups
<1>10. CASE next = 10
  <2>1. Order[7] \in Stored /\ Order[8] \in Stored
    BY <1>10, StoredBefore
  <2> QED
    BY <1>10, <2>1, OrderAt DEF Lookups
<1>11. CASE next = 11
  <2>1. Order[3] \in Stored
    BY <1>11, StoredBefore
  <2> QED
    BY <1>11, <2>1, OrderAt DEF Lookups
<1>12. CASE next = 12
  <2>1. Order[1] \in Stored /\ Order[2] \in Stored /\ Order[7] \in Stored
    BY <1>12, StoredBefore
  <2> QED
    BY <1>12, <2>1, OrderAt DEF Lookups
<1>13. CASE next = 13
  BY <1>13, OrderAt DEF Lookups
<1>14. CASE next = 14
  <2>1. Order[6] \in Stored
    BY <1>14, StoredBefore
  <2> QED
    BY <1>14, <2>1, OrderAt DEF Lookups
<1>15. CASE next = 15
  <2>1. Order[7] \in Stored
    BY <1>15, StoredBefore
  <2> QED
    BY <1>15, <2>1, OrderAt DEF Lookups
<1>16. CASE next = 16
  <2>1. Order[2] \in Stored /\ Order[4] \in Stored
    BY <1>16, StoredBefore
  <2> QED
    BY <1>16, <2>1, OrderAt DEF Lookups
<1>17. CASE next = 17
  <2>1. Order[11] \in Stored /\ Order[16] \in Stored
    BY <1>17, StoredBefore
  <2> QED
    BY <1>17, <2>1, OrderAt DEF Lookups
<1>18. CASE next = 18
  <2>1. Order[6] \in Stored /\ Order[16] \in Stored
    BY <1>18, StoredBefore
  <2> QED
    BY <1>18, <2>1, OrderAt DEF Lookups
<1>19. CASE next = 19
  <2>1. Order[16] \in Stored
    BY <1>19, StoredBefore
  <2> QED
    BY <1>19, <2>1, OrderAt DEF Lookups
<1>20. CASE next = 20
  <2>1. Order[8] \in Stored /\ Order[19] \in Stored
    BY <1>20, StoredBefore
  <2> QED
    BY <1>20, <2>1, OrderAt DEF Lookups
<1>21. CASE next = 21
  <2>1. Order[6] \in Stored
    BY <1>21, StoredBefore
  <2> QED
    BY <1>21, <2>1, OrderAt DEF Lookups
<1>22. CASE next = 22
  BY <1>22, OrderAt DEF Lookups
<1>23. CASE next = 23
  <2>1. Order[11] \in Stored /\ Order[22] \in Stored
    BY <1>23, StoredBefore
  <2> QED
    BY <1>23, <2>1, OrderAt DEF Lookups
<1>24. CASE next = 24
  <2>1. Order[7] \in Stored /\ Order[19] \in Stored
    BY <1>24, StoredBefore
  <2> QED
    BY <1>24, <2>1, OrderAt DEF Lookups
<1> QED
  BY <1>1, <1>2, <1>3, <1>4, <1>5, <1>6, <1>7, <1>8, <1>9, <1>10, <1>11, <1>12,
     <1>13, <1>14, <1>15, <1>16, <1>17, <1>18, <1>19, <1>20, <1>21, <1>22, <1>23, <1>24

LEMMA CleanIsFound ==
  ASSUME next \in 1..24, Clean PROVE Found(Order[next])
<1> DEFINE s == Order[next]
<1>1. ASSUME s \in DOMAIN Lookups, NEW c \in DOMAIN Lookups[s], NEW x \in Column(s, c) \ {None}
      PROVE  <<x>> \in StoredKeys(Lookups[s][c])
  <2>1. <<x>> \in CellsOf(Lookups[s][c], Key[Lookups[s][c]])
    BY <1>1, LookupsAreChecked DEF Clean, ReferencesResolve
  <2>2. Lookups[s][c] \in Stored
    BY <1>1, TargetsAreStored
  <2> QED
    BY <2>1, <2>2 DEF StoredKeys
<1>2. ASSUME s = "OfferingSections"
      PROVE  CellsOf(s, Key.ProgramSubjects) \subseteq StoredKeys("ProgramSubjects")
  <2>1. next = 17
    BY <1>2, OrderAt
  <2>2. "ProgramSubjects" \in Stored
    BY <2>1, StoredBefore, OrderAt
  <2> QED
    BY <1>2, <2>2 DEF Clean, ReferencesResolve, Resolves, StoredKeys
<1>3. ASSUME s \in SlotSheets
      PROVE  CellsOf(s, Key.TimeSlots) \subseteq StoredKeys("TimeSlots")
  <2>1. next \in {14, 15, 21, 24}
    BY <1>3, OrderAt DEF SlotSheets
  <2>2. "TimeSlots" \in Stored
    BY <2>1, StoredBefore, OrderAt
  <2> QED
    BY <1>3, <2>2 DEF Clean, ReferencesResolve, Resolves, StoredKeys
<1> QED
  BY <1>1, <1>2, <1>3 DEF Found

LEMMA InitWorkbook == Init => WorkbookInv
BY WorkbookAssumption, OrderAt DEF Init, WorkbookInv, TypeOK, NothingDangles

LEMMA CleanStays == ASSUME UNCHANGED workbook PROVE Clean' <=> Clean
BY DEF Clean, Readable, Distinct, ReferencesResolve, Resolves, Column, CellsOf, Rows,
  Complete, With, UnitsAgree, OwnersAreSingle, OnCampus, CurriculumAgrees, SlotsInOrder,
  OfferingsLinked, MeetingsPossible, AvailabilityStated, LaboratoriesProfiled

LEMMA NextWorkbook == WorkbookInv /\ [Next]_vars => WorkbookInv'
<1> SUFFICES ASSUME WorkbookInv, [Next]_vars PROVE WorkbookInv'
  OBVIOUS
<1> USE DEF WorkbookInv, TypeOK, NothingDangles
<1>1. CASE Preview
  BY <1>1, CleanStays DEF Preview
<1>2. CASE StoreSheet
  BY <1>2, CleanStays, OrderAt DEF StoreSheet, Committing
<1>3. CASE RowFails
  <2>1. next \in 1..24
    BY <1>3, OrderAt DEF RowFails, Committing
  <2>2. Found(Order[next])
    BY <1>3, <2>1, CleanIsFound DEF RowFails, Committing
  <2> QED
    BY <1>3, <2>2, CleanStays DEF RowFails, Committing
<1>4. CASE Commit
  BY <1>4, CleanStays DEF Commit
<1>5. CASE UNCHANGED vars
  BY <1>5, CleanStays DEF vars
<1> QED
  BY <1>1, <1>2, <1>3, <1>4, <1>5 DEF Next

\* Types, and that only clean workbooks are stored.
THEOREM WorkbookInvariant == Spec => []WorkbookInv
BY InitWorkbook, NextWorkbook, PTL DEF Spec

\* The commit of any workbook that was previewed as clean finds every code and
\* every slot that it looks up.
THEOREM CommitFindsAll == Spec => []NothingDangles
<1>1. WorkbookInv => NothingDangles
  BY DEF WorkbookInv
<1> QED
  BY <1>1, WorkbookInvariant, PTL

-----------------------------------------------------------------------------
(* What a clean workbook promises beyond what the preview looks at         *)

\* A readable slot has a number and times.
LEMMA SlotsAreNumbered ==
  ASSUME workbook \in Workbooks, Readable, NEW r \in Rows("TimeSlots")
  PROVE  r.sequence \in Int /\ r.starts_at \in Int /\ r.ends_at \in Int
<1>1. "TimeSlots" \in DOMAIN workbook /\ r \in workbook["TimeSlots"]
  BY DEF Rows
<1>2. "TimeSlots" \in Sheets
  BY DEF Sheets, Key
<1>3. workbook["TimeSlots"] # Unreadable
  BY <1>1, <1>2 DEF Readable
<1>4. \A c \in DOMAIN r : r[c] # Unreadable /\ (r[c] = None => c \in MayBeBlank("TimeSlots"))
  BY <1>1, <1>2 DEF Readable
<1>5. MayBeBlank("TimeSlots") = {"is_active", "assume_fully_available"}
  BY DEF MayBeBlank
<1>6. \A c \in {"sequence", "starts_at", "ends_at"} :
        c \in DOMAIN r /\ r[c] \in Int \cup {Unreadable, None}
  BY <1>1, <1>3, RowAssumption
<1>7. \A c \in {"sequence", "starts_at", "ends_at"} : r[c] \in Int
  BY <1>4, <1>5, <1>6
<1> QED
  BY <1>7

\* A set of natural numbers that is not empty has a least one.
LEMMA LeastNumber ==
  ASSUME NEW S, S \subseteq Nat, S # {}
  PROVE  \E m \in S : \A n \in S : m <= n
<1>1. PICK m \in S : \A n \in S : ~(<<n, m>> \in OpToRel(<, Nat))
  BY NatLessThanWellFounded, WFMin, Zenon
<1>2. \A n \in S : <<n, m>> \in OpToRel(<, Nat) <=> n < m
  BY Zenon DEF OpToRel
<1>3. \A n \in S : ~(n < m)
  BY <1>1, <1>2
<1> QED
  BY <1>3

\* The preview compares neighbours; a later slot of the day then never begins
\* before an earlier one has ended.  Otherwise take two that do, as close in
\* sequence as possible: they are no neighbours, and a slot between them is
\* too close to the one or to the other.
LEMMA LaterSlotsFollow ==
  ASSUME workbook \in Workbooks, Clean,
         NEW r1 \in Rows("TimeSlots"), NEW r2 \in Rows("TimeSlots"),
         r1.day = r2.day, r1.sequence < r2.sequence
  PROVE  r1.ends_at <= r2.starts_at
<1> DEFINE T == Rows("TimeSlots")
           Bad(a, b) == a.day = b.day /\ a.sequence < b.sequence /\ ~(a.ends_at <= b.starts_at)
           Gaps == {g \in Nat : \E a, b \in T : Bad(a, b) /\ g = b.sequence - a.sequence}
<1>1. \A r \in T : r.sequence \in Int /\ r.starts_at \in Int /\ r.ends_at \in Int
  BY SlotsAreNumbered DEF Clean
<1>2. \A r \in T : r.starts_at < r.ends_at
  BY DEF Clean, SlotsInOrder
<1>3. \A a, b \in T :
        /\ a.day = b.day /\ a.sequence < b.sequence
        /\ \A x \in T : x.day = a.day => x.sequence <= a.sequence \/ x.sequence >= b.sequence
        => a.ends_at <= b.starts_at
  BY DEF Clean, SlotsInOrder, With
<1>4. SUFFICES ASSUME Bad(r1, r2) PROVE FALSE
  OBVIOUS
<1>5. r2.sequence - r1.sequence \in Gaps
  BY <1>1, <1>4
<1>6. PICK g \in Gaps : \A h \in Gaps : g <= h
  BY <1>5, LeastNumber
<1>7. PICK a \in T, b \in T : Bad(a, b) /\ g = b.sequence - a.sequence
  BY <1>6
<1>8. PICK x \in T : x.day = a.day /\ ~(x.sequence <= a.sequence \/ x.sequence >= b.sequence)
  BY <1>3, <1>7
<1>9. a.sequence < x.sequence /\ x.sequence < b.sequence
  BY <1>1, <1>7, <1>8
<1>10. ~Bad(a, x)
  <2>1. SUFFICES ASSUME Bad(a, x) PROVE FALSE
    OBVIOUS
  <2>2. x.sequence - a.sequence \in Gaps
    BY <1>1, <1>9, <2>1
  <2> QED
    BY <1>1, <1>6, <1>7, <1>9, <2>2
<1>11. ~Bad(x, b)
  <2>1. SUFFICES ASSUME Bad(x, b) PROVE FALSE
    OBVIOUS
  <2>2. b.sequence - x.sequence \in Gaps
    BY <1>1, <1>9, <2>1
  <2> QED
    BY <1>1, <1>6, <1>7, <1>9, <2>2
<1>12. a.ends_at <= x.starts_at /\ x.ends_at <= b.starts_at
  BY <1>7, <1>8, <1>9, <1>10, <1>11
<1> QED
  BY <1>1, <1>2, <1>7, <1>12

\* A sheet that the preview could read has no two rows with one key.
LEMMA KeysAreDistinct ==
  ASSUME Readable, NEW s \in Sheets
  PROVE  Distinct(s, Key[s])
BY DEF Readable, Distinct, Rows

\* Two slots of a day never overlap.
LEMMA SlotsAreApart ==
  ASSUME workbook \in Workbooks, Clean,
         NEW r1 \in Rows("TimeSlots"), NEW r2 \in Rows("TimeSlots"),
         r1.day = r2.day, r1 # r2
  PROVE  r1.ends_at <= r2.starts_at \/ r2.ends_at <= r1.starts_at
<1>1. r1.sequence # r2.sequence
  <2>1. Key["TimeSlots"] = <<"day", "sequence">> /\ "TimeSlots" \in Sheets
    BY DEF Key, Sheets
  <2>2. Cells(r1, <<"day", "sequence">>) # Cells(r2, <<"day", "sequence">>)
    BY <2>1, KeysAreDistinct DEF Clean, Distinct
  <2> QED
    BY <2>2 DEF Cells
<1>2. r1.sequence \in Int /\ r2.sequence \in Int
  BY SlotsAreNumbered DEF Clean
<1>3. CASE r1.sequence < r2.sequence
  BY <1>3, LaterSlotsFollow
<1>4. CASE r2.sequence < r1.sequence
  BY <1>4, LaterSlotsFollow
<1> QED
  BY <1>1, <1>2, <1>3, <1>4

\* What a clean workbook defines is enough for build_problem.
LEMMA CleanIsUsable ==
  ASSUME workbook \in Workbooks, Clean
  PROVE  CommittedIsUsable
<1>1. ASSUME NEW m \in Rows("MeetingRequirements"), Active(m),
             NEW o \in With("CourseOfferings", "external_key", m.offering_key), Active(o)
      PROVE  /\ With("OfferingSections", "offering_key", m.offering_key) # {}
             /\ With("OfferingInstructors", "offering_key", m.offering_key) # {}
  <2>1. o \in Rows("CourseOfferings") /\ o.external_key = m.offering_key
    BY DEF With
  <2>2. \A s \in {"OfferingSections", "OfferingInstructors", "MeetingRequirements"} :
          m.offering_key \in Column(s, "offering_key")
    BY <1>1, <2>1 DEF Clean, OfferingsLinked
  <2> QED
    BY <2>2 DEF Column, With
<1>2. ASSUME NEW m \in Rows("MeetingRequirements"), m.component = "LAB"
      PROVE  With("MeetingCapabilities", "meeting_key", m.meeting_key) # {}
  <2>1. m.meeting_key \in Column("MeetingCapabilities", "meeting_key")
    BY <1>2 DEF Clean, MeetingsPossible
  <2> QED
    BY <2>1 DEF Column, With
<1>3. ASSUME NEW r \in Rows("Rooms"), Active(r), r.assume_fully_available # TRUE
      PROVE  With("RoomAvailability", "room_code", r.code) # {}
  <2>1. r.code \in Column("RoomAvailability", "room_code")
    BY <1>3 DEF Clean, AvailabilityStated
  <2> QED
    BY <2>1 DEF Column, With
<1>4. ASSUME NEW i \in Rows("Instructors"), Active(i), i.assume_fully_available # TRUE
      PROVE  With("InstructorAvailability", "instructor_code", i.employee_code) # {}
  <2>1. i.employee_code \in Column("InstructorAvailability", "instructor_code")
    BY <1>4 DEF Clean, AvailabilityStated
  <2> QED
    BY <2>1 DEF Column, With
<1>5. \A r1, r2 \in Rows("TimeSlots") :
        r1.day = r2.day /\ r1 # r2 => r1.ends_at <= r2.starts_at \/ r2.ends_at <= r1.starts_at
  BY SlotsAreApart
<1>6. \A m \in Rows("MeetingRequirements") :
        (Active(m) /\ \E o \in With("CourseOfferings", "external_key", m.offering_key) : Active(o))
          => /\ With("OfferingSections", "offering_key", m.offering_key) # {}
             /\ With("OfferingInstructors", "offering_key", m.offering_key) # {}
             /\ m.component = "LAB" => With("MeetingCapabilities", "meeting_key", m.meeting_key) # {}
  BY <1>1, <1>2
<1>7. \A r \in Rows("Rooms") :
        \/ ~Active(r) \/ r.assume_fully_available = TRUE
        \/ With("RoomAvailability", "room_code", r.code) # {}
  BY <1>3
<1>8. \A i \in Rows("Instructors") :
        \/ ~Active(i) \/ i.assume_fully_available = TRUE
        \/ With("InstructorAvailability", "instructor_code", i.employee_code) # {}
  BY <1>4
<1> QED
  BY <1>5, <1>6, <1>7, <1>8, Zenon DEF CommittedIsUsable

-----------------------------------------------------------------------------
(* What the models may still refuse                                        *)

\* The room that a row of these sheets names is one of the workbook.
LEMMA RoomIsNamed ==
  ASSUME workbook \in Workbooks, Clean,
         NEW s \in {"LaboratoryProfiles", "RoomAuthorizations", "Locks"}, NEW r \in Rows(s)
  PROVE  RoomNamed(r) \in Rows("Rooms") /\ RoomNamed(r).code = r.room_code
<1>1. s \in Sheets /\ s \in DOMAIN workbook /\ r \in workbook[s]
  BY DEF Rows, Sheets, Key
<1>2. workbook[s] # Unreadable
  BY <1>1 DEF Clean, Readable
<1>3. s \in DOMAIN References /\ "room_code" \in DOMAIN References[s]
      /\ References[s]["room_code"] = "Rooms"
  BY DEF References
<1>4. "room_code" \in DOMAIN r
  BY <1>1, <1>2, <1>3, RowAssumption
<1>5. "room_code" \notin MayBeBlank(s)
  BY DEF MayBeBlank
<1>6. r.room_code # None
  BY <1>1, <1>4, <1>5 DEF Clean, Readable
<1>7. r.room_code \in Column(s, "room_code") \ {None}
  BY <1>6 DEF Column
<1>8. <<r.room_code>> \in CellsOf("Rooms", Key["Rooms"])
  BY <1>3, <1>7 DEF Clean, ReferencesResolve
<1>9. Key["Rooms"] = <<"code">>
  BY DEF Key
<1>10. PICK x \in Rows("Rooms") : <<r.room_code>> = Cells(x, <<"code">>)
  BY <1>8, <1>9 DEF CellsOf
<1>11. x.code = r.room_code
  BY <1>10 DEF Cells
<1> QED
  BY <1>11 DEF RoomNamed

LEMMA UnitsAreAccepted ==
  ASSUME workbook \in Workbooks, Clean, ~KnownGaps, NEW s \in Sheets
  PROVE  UnitsAccepted(s)
<1>1. s = "ProgramSubjects" => UnitsAgree
  BY DEF Clean
<1>2. s = "Rooms" => \A r \in Rows(s) : OneOf(r.owning_college_code, r.owning_department_code)
  BY DEF Clean, OwnersAreSingle
<1>3. ASSUME s = "LaboratoryProfiles", NEW r \in Rows(s)
      PROVE  RoomNamed(r).kind = "LABORATORY"
  <2>1. RoomNamed(r) \in With("Rooms", "code", r.room_code)
    BY <1>3, RoomIsNamed DEF With
  <2> QED
    BY <1>3, <2>1 DEF KnownGaps
<1> QED
  BY <1>1, <1>2, <1>3 DEF UnitsAccepted

LEMMA CampusIsAccepted ==
  ASSUME workbook \in Workbooks, Clean, ~KnownGaps, NEW s \in Sheets
  PROVE  CampusAccepted(s)
<1>1. \A r \in Rows("Rooms") : r.campus = Campus
  BY DEF KnownGaps
<1>2. ASSUME s \in {"RoomAuthorizations", "Locks"}, NEW r \in Rows(s)
      PROVE  RoomNamed(r).campus = Campus
  BY <1>1, <1>2, RoomIsNamed
<1> QED
  BY <1>1, <1>2 DEF CampusAccepted

LEMMA NumbersAreAccepted ==
  ASSUME workbook \in Workbooks, Clean, ~KnownGaps, NEW s \in Sheets
  PROVE  NumbersAccepted(s)
<1>1. CASE s = "Sections"
  <2>1. \A r \in Rows(s) : r.year_level \in 1..10
    BY <1>1 DEF KnownGaps, Column
  <2> QED
    BY <1>1, <2>1 DEF NumbersAccepted
<1>2. CASE s = "TimeSlots"
  <2>1. \A r \in Rows(s) : r.sequence \in Small
    BY <1>2 DEF KnownGaps, Column
  <2>2. \A r \in Rows(s) : r.starts_at < r.ends_at
    BY <1>2 DEF Clean, SlotsInOrder
  <2> QED
    BY <1>2, <2>1, <2>2 DEF NumbersAccepted
<1>3. CASE s = "MeetingRequirements"
  <2>1. \A r \in Rows(s) : r.occurrence_number \in Small /\ r.duration_atoms \in Small
    BY <1>3 DEF KnownGaps, Column
  <2>2. \A r \in Rows(s) : r.occurrence_number >= 1 /\ r.duration_atoms >= 1
    BY <1>3 DEF Clean, MeetingsPossible
  <2>3. \A r \in Rows(s) :
          r.occurrence_number \in Small \ {0} /\ r.duration_atoms \in Small \ {0}
    <3>1. \A x \in Small : x >= 1 => x \in Small \ {0}
      BY DEF Small
    <3> QED
      BY <2>1, <2>2, <3>1, Zenon
  <2> QED
    BY <1>3, <2>3 DEF NumbersAccepted
<1>4. CASE s = "InstructorPreferences"
  <2>1. \A r \in Rows(s) : r.weight \in Small \ {0}
    BY <1>4 DEF KnownGaps, Column
  <2> QED
    BY <1>4, <2>1 DEF NumbersAccepted
<1>5. CASE s \notin {"Sections", "TimeSlots", "MeetingRequirements", "InstructorPreferences"}
  BY <1>5 DEF NumbersAccepted
<1> QED
  BY <1>1, <1>2, <1>3, <1>4, <1>5

\* No two slots of a day begin together: they would overlap.
LEMMA StartsAreDistinct ==
  ASSUME workbook \in Workbooks, Clean
  PROVE  Distinct("TimeSlots", <<"day", "starts_at">>)
<1> SUFFICES ASSUME NEW r1 \in Rows("TimeSlots"), NEW r2 \in Rows("TimeSlots"), r1 # r2,
                    Cells(r1, <<"day", "starts_at">>) = Cells(r2, <<"day", "starts_at">>)
             PROVE  FALSE
  BY DEF Distinct
<1>1. r1.day = r2.day /\ r1.starts_at = r2.starts_at
  BY DEF Cells
<1>2. r1.ends_at <= r2.starts_at \/ r2.ends_at <= r1.starts_at
  BY <1>1, SlotsAreApart
<1>3. r1.starts_at < r1.ends_at /\ r2.starts_at < r2.ends_at
  BY DEF Clean, SlotsInOrder
<1>4. /\ r1.starts_at \in Int /\ r1.ends_at \in Int
      /\ r2.starts_at \in Int /\ r2.ends_at \in Int
  BY SlotsAreNumbered DEF Clean
<1> QED
  BY <1>1, <1>2, <1>3, <1>4

\* Apart from the known gaps, the models accept every sheet of a clean workbook.
LEMMA CleanIsAccepted ==
  ASSUME workbook \in Workbooks, Clean, ~KnownGaps, NEW s \in Sheets
  PROVE  Accepted(s)
<1>1. Distinct(s, Key[s])
  BY KeysAreDistinct DEF Clean
<1>2. ASSUME s \in DOMAIN Unique PROVE Distinct(s, Unique[s])
  <2>1. CASE s = "TimeSlots"
    <3>1. Unique["TimeSlots"] = <<"day", "starts_at">>
      BY DEF Unique
    <3> QED
      BY <2>1, <3>1, StartsAreDistinct
  <2>2. CASE s # "TimeSlots"
    BY <1>2, <2>2 DEF KnownGaps
  <2> QED
    BY <2>1, <2>2
<1>3. s = "RoomAuthorizations" => \A r \in Rows(s) : OneOf(r.college_code, r.department_code)
  BY DEF Clean, OwnersAreSingle
<1>4. s = "OfferingSections" => CurriculumAgrees
  BY DEF Clean
<1> QED
  BY <1>1, <1>2, <1>3, <1>4, UnitsAreAccepted, CampusIsAccepted, NumbersAreAccepted
     DEF Accepted

-----------------------------------------------------------------------------
(* The import                                                              *)

\* The upload stays as it is; a commit that the models refused had met a gap.
ImportInv ==
  /\ WorkbookInv
  /\ workbook \in Workbooks
  /\ RefusedForAKnownReason

LEMMA GapsStay == ASSUME UNCHANGED workbook PROVE KnownGaps' <=> KnownGaps
BY DEF KnownGaps, Rows, With, Distinct, Column

LEMMA NextImport == ImportInv /\ [Next]_vars => ImportInv'
<1> SUFFICES ASSUME ImportInv, [Next]_vars PROVE ImportInv'
  OBVIOUS
<1>1. WorkbookInv'
  BY NextWorkbook DEF ImportInv
<1>2. UNCHANGED workbook
  BY DEF Next, Preview, StoreSheet, RowFails, Commit, vars
<1>3. workbook' \in Workbooks
  BY <1>2 DEF ImportInv
<1>4. RefusedForAKnownReason'
  <2>1. CASE RowFails
    <3>1. next \in 1..24 /\ Clean
      BY <2>1, OrderAt DEF ImportInv, WorkbookInv, TypeOK, RowFails, Committing
    <3>2. Order[next] \in Sheets
      BY <3>1, OrderAt DEF Sheets, Key
    <3>3. ~Accepted(Order[next])
      BY <2>1, <3>1, CleanIsFound DEF RowFails
    <3>4. KnownGaps
      BY <3>1, <3>2, <3>3, CleanIsAccepted DEF ImportInv
    <3> QED
      BY <1>2, <3>4, GapsStay DEF RefusedForAKnownReason
  <2>2. CASE UNCHANGED raised
    BY <1>2, <2>2, GapsStay DEF ImportInv, RefusedForAKnownReason
  <2> QED
    BY <2>1, <2>2 DEF Next, Preview, StoreSheet, Commit, vars
<1> QED
  BY <1>1, <1>3, <1>4 DEF ImportInv

LEMMA ImportInvariant == Spec => []ImportInv
<1>1. Init => ImportInv
  BY InitWorkbook, WorkbookAssumption DEF Init, ImportInv, RefusedForAKnownReason
<1> QED
  BY <1>1, NextImport, PTL DEF Spec

\* For every workbook: the models refuse what the preview found clean for the
\* known reasons only.
THEOREM RefusalsAreKnown == Spec => []RefusedForAKnownReason
<1>1. ImportInv => RefusedForAKnownReason
  BY DEF ImportInv
<1> QED
  BY <1>1, ImportInvariant, PTL

\* For every workbook: what was committed is complete for build_problem, and no
\* two slots of a day overlap, however many the day has.
THEOREM CommittedWorkbooksAreUsable == Spec => []CommittedIsUsable
<1>1. ImportInv => CommittedIsUsable
  <2>1. ASSUME ImportInv, status = "COMMITTED" PROVE CommittedIsUsable
    BY <2>1, CleanIsUsable DEF ImportInv, WorkbookInv
  <2>2. status # "COMMITTED" => CommittedIsUsable
    BY DEF CommittedIsUsable
  <2> QED
    BY <2>1, <2>2
<1> QED
  BY <1>1, ImportInvariant, PTL
=============================================================================
