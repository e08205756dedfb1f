---------------------------- MODULE WorkbookImport ----------------------------
(***************************************************************************)
(* One workbook through preview_workbook and commit_import                 *)
(* (services/imports.py): the rules of the preview, and the rows that the  *)
(* commit stores sheet by sheet under the rules of the models.             *)
(*                                                                         *)
(* A workbook maps the sheets it has to sets of rows, a row its columns to *)
(* cells: only the columns a rule reads.  The catalog is empty at first;   *)
(* what it may refuse later is a subject of DatasetRevision.               *)
(***************************************************************************)
EXTENDS Integers, Sequences, FiniteSets

CONSTANTS
  Workbooks,   \* the uploaded files
  Campus,      \* the campus of the term
  CaseFolded,  \* what str.casefold makes of a campus
  Unreadable,  \* a sheet or a cell that cannot be parsed
  None         \* a blank cell

VARIABLES
  workbook,  \* the upload
  status,    \* the status of its ImportBatch
  next,      \* the sheet that the commit stores next, by its place in Order
  raised     \* what made the commit roll back

vars == <<workbook, status, next, raised>>

\* The columns that identify a row of a sheet.
Key ==
  [ Colleges |-> <<"code">>, Departments |-> <<"code">>, Programs |-> <<"code">>,
    Subjects |-> <<"code">>,
    ProgramSubjects |-> <<"program_code", "subject_code", "curriculum_version">>,
    Sections |-> <<"code">>, Instructors |-> <<"employee_code">>,
    Rooms |-> <<"code">>, Capabilities |-> <<"code">>,
    RoomCapabilities |-> <<"room_code", "capability_code">>,
    RoomAuthorizations |->
      <<"room_code", "classification", "college_code", "department_code">>,
    TimeSlots |-> <<"day", "sequence">>, CourseOfferings |-> <<"external_key">>,
    OfferingSections |-> <<"offering_key", "section_code">>,
    OfferingInstructors |-> <<"offering_key", "instructor_code">>,
    MeetingRequirements |-> <<"meeting_key">>,
    MeetingCapabilities |-> <<"meeting_key", "capability_code">>,
    InstructorAvailability |-> <<"instructor_code", "day", "sequence">>,
    RoomAvailability |-> <<"room_code", "day", "sequence">>,
    Students |-> <<"pseudonymous_code">>,
    StudentSections |-> <<"pseudonymous_code", "section_code">>,
    InstructorPreferences |-> <<"instructor_code", "day", "sequence">>,
    LaboratoryProfiles |-> <<"room_code">>, Locks |-> <<"meeting_key">> ]

Sheets == DOMAIN Key
ASSUME WorkbookAssumption ==
  /\ \A w \in Workbooks : DOMAIN w \subseteq Sheets
  /\ None \notin {"KeyError", "ValidationError"}

OptionalSheets ==
  {"Students", "StudentSections", "InstructorPreferences", "LaboratoryProfiles", "Locks"}
NonEmptySheets ==
  {"Colleges", "Departments", "Programs", "Subjects", "ProgramSubjects", "Sections",
   "Instructors", "Rooms", "TimeSlots", "CourseOfferings", "OfferingSections",
   "OfferingInstructors", "MeetingRequirements"}
MayBeBlank(s) ==
  {"is_active", "assume_fully_available"} \cup
  CASE s = "Rooms" -> {"owning_college_code", "owning_department_code"}
    [] s = "RoomAuthorizations" -> {"college_code", "department_code"}
    [] s = "ProgramSubjects" -> {"authoritative_department_code"}
    [] OTHER -> {}

Rows(s) == IF s \in DOMAIN workbook THEN workbook[s] ELSE {}
Cells(r, columns) == [k \in DOMAIN columns |-> r[columns[k]]]
CellsOf(s, columns) == {Cells(r, columns) : r \in Rows(s)}
Column(s, c) == {r[c] : r \in Rows(s)}
Distinct(s, columns) ==
  \A r1, r2 \in Rows(s) : Cells(r1, columns) = Cells(r2, columns) => r1 = r2

Init ==
  /\ workbook \in Workbooks
  /\ status = "UPLOADED"
  /\ next = 1
  /\ raised = None

-----------------------------------------------------------------------------
(* The preview. *)

\* _parse_sheet
Readable ==
  \A s \in Sheets :
    IF s \in DOMAIN workbook
    THEN /\ workbook[s] # Unreadable
         /\ \A r \in workbook[s] : \A c \in DOMAIN r :
              r[c] # Unreadable /\ (r[c] = None => c \in MayBeBlank(s))
         /\ Distinct(s, Key[s])
    ELSE s \in OptionalSheets

\* The columns that name a row of another sheet (_validate_references).
References ==
  [ Departments |-> [college_code |-> "Colleges"],
    Programs |-> [department_code |-> "Departments"],
    ProgramSubjects |->
      [program_code |-> "Programs", subject_code |-> "Subjects",
       authoritative_college_code |-> "Colleges",
       authoritative_department_code |-> "Departments"],
    Sections |-> [program_code |-> "Programs"],
    Instructors |-> [department_code |-> "Departments"],
    Rooms |->
      [owning_college_code |-> "Colleges", owning_department_code |-> "Departments"],
    RoomCapabilities |-> [room_code |-> "Rooms", capability_code |-> "Capabilities"],
    RoomAuthorizations |->
      [room_code |-> "Rooms", college_code |-> "Colleges",
       department_code |-> "Departments"],
    CourseOfferings |->
      [subject_code |-> "Subjects", offering_department_code |-> "Departments"],
    OfferingSections |->
      [offering_key |-> "CourseOfferings", section_code |-> "Sections"],
    OfferingInstructors |->
      [offering_key |-> "CourseOfferings", instructor_code |-> "Instructors"],
    MeetingRequirements |-> [offering_key |-> "CourseOfferings"],
    MeetingCapabilities |->
      [meeting_key |-> "MeetingRequirements", capability_code |-> "Capabilities"],
    InstructorAvailability |-> [instructor_code |-> "Instructors"],
    RoomAvailability |-> [room_code |-> "Rooms"],
    StudentSections |-> [pseudonymous_code |-> "Students", section_code |-> "Sections"],
    InstructorPreferences |-> [instructor_code |-> "Instructors"],
    LaboratoryProfiles |-> [room_code |-> "Rooms"],
    Locks |-> [meeting_key |-> "MeetingRequirements", room_code |-> "Rooms"] ]
SlotSheets == {"InstructorAvailability", "RoomAvailability", "InstructorPreferences", "Locks"}

\* _parse_sheet refuses a sheet without one of its headers, so that a row has a
\* cell for each, and what it makes of a number or of a time can be compared.
ASSUME RowAssumption ==
  \A w \in Workbooks : \A s \in DOMAIN w : w[s] # Unreadable => \A r \in w[s] :
    /\ {Key[s][k] : k \in DOMAIN Key[s]} \subseteq DOMAIN r
    /\ s \in DOMAIN References => DOMAIN References[s] \subseteq DOMAIN r
    /\ s = "TimeSlots" => \A c \in {"sequence", "starts_at", "ends_at"} :
         c \in DOMAIN r /\ r[c] \in Int \cup {Unreadable, None}

\* Every column on its own, instead of the columns of a row together.
Resolves_ByColumn(s, columns, target) ==
  \A k \in DOMAIN columns : Column(s, columns[k]) \subseteq Column(target, Key[target][k])
Resolves(s, columns, target) ==
  CellsOf(s, columns) \subseteq CellsOf(target, Key[target])

ReferencesResolve ==
  /\ \A s \in DOMAIN References : \A c \in DOMAIN References[s] :
       {<<x>> : x \in Column(s, c) \ {None}} \subseteq
         CellsOf(References[s][c], Key[References[s][c]])
  /\ Resolves("OfferingSections", Key.ProgramSubjects, "ProgramSubjects")
  /\ \A s \in SlotSheets : Resolves(s, Key.TimeSlots, "TimeSlots")

Complete == \A s \in NonEmptySheets : Rows(s) # {}

Active(r) == r.is_active # FALSE
\* The rows of a sheet whose column c is x.
With(s, c, x) == {r \in Rows(s) : r[c] = x}
OneOf(a, b) == (a = None) # (b = None)

UnitsAgree ==
  \A r \in Rows("ProgramSubjects") :
    r.authoritative_department_code # None =>
      \E d \in With("Departments", "code", r.authoritative_department_code) :
        d.college_code = r.authoritative_college_code
OwnersAreSingle ==
  /\ \A r \in Rows("Rooms") : OneOf(r.owning_college_code, r.owning_department_code)
  /\ \A r \in Rows("RoomAuthorizations") : OneOf(r.college_code, r.department_code)
OnCampus == \A r \in Rows("Rooms") : CaseFolded[r.campus] = CaseFolded[Campus]
CurriculumAgrees ==
  \A r \in Rows("OfferingSections") :
    /\ \A x \in With("Sections", "code", r.section_code) : x.program_code = r.program_code
    /\ \A o \in With("CourseOfferings", "external_key", r.offering_key) :
         o.subject_code = r.subject_code

\* Slots that may begin before the one before them has ended.
SlotsInOrder_Overlapping ==
  \A r \in Rows("TimeSlots") : r.starts_at < r.ends_at /\ r.sequence >= 0
\* The slots of a day, in sequence, follow one another without overlap.
SlotsInOrder ==
  /\ \A r \in Rows("TimeSlots") : r.starts_at < r.ends_at /\ r.sequence >= 0
  /\ \A r1, r2 \in Rows("TimeSlots") :
       /\ r1.day = r2.day /\ r1.sequence < r2.sequence
       /\ \A x \in With("TimeSlots", "day", r1.day) :
            x.sequence <= r1.sequence \/ x.sequence >= r2.sequence
       => r1.ends_at <= r2.starts_at

\* Nobody needs to teach an offering.
OfferingsLinked_NoInstructor ==
  \A o \in Rows("CourseOfferings") : Active(o) =>
    \A s \in {"OfferingSections", "MeetingRequirements"} :
      o.external_key \in Column(s, "offering_key")
\* Every active offering has sections, instructors and meetings.
OfferingsLinked ==
  \A o \in Rows("CourseOfferings") : Active(o) =>
    \A s \in {"OfferingSections", "OfferingInstructors", "MeetingRequirements"} :
      o.external_key \in Column(s, "offering_key")
MeetingsPossible ==
  \A m \in Rows("MeetingRequirements") :
    /\ m.occurrence_number >= 1 /\ m.duration_atoms >= 1
    /\ m.component = "LAB" => m.meeting_key \in Column("MeetingCapabilities", "meeting_key")
AvailabilityStated ==
  /\ \A i \in Rows("Instructors") : Active(i) /\ i.assume_fully_available # TRUE =>
       i.employee_code \in Column("InstructorAvailability", "instructor_code")
  /\ \A r \in Rows("Rooms") : Active(r) /\ r.assume_fully_available # TRUE =>
       r.code \in Column("RoomAvailability", "room_code")
LaboratoriesProfiled ==
  \A r \in Rows("Rooms") :
    r.kind = "LABORATORY" => r.code \in Column("LaboratoryProfiles", "room_code")

Clean ==
  /\ Readable
  /\ ReferencesResolve
  /\ Complete /\ UnitsAgree /\ OwnersAreSingle /\ OnCampus /\ CurriculumAgrees
  /\ SlotsInOrder /\ OfferingsLinked /\ MeetingsPossible
  /\ AvailabilityStated /\ LaboratoriesProfiled

Preview ==
  /\ status = "UPLOADED"
  /\ status' = IF Clean THEN "PREVIEWED" ELSE "INVALID"
  /\ UNCHANGED <<workbook, next, raised>>

-----------------------------------------------------------------------------
(* The commit. *)

Order ==
  << "Colleges", "Departments", "Programs", "Subjects", "ProgramSubjects", "Instructors",
     "Rooms", "Capabilities", "LaboratoryProfiles", "RoomCapabilities", "Sections",
     "RoomAuthorizations", "TimeSlots", "InstructorAvailability", "RoomAvailability",
     "CourseOfferings", "OfferingSections", "OfferingInstructors", "MeetingRequirements",
     "MeetingCapabilities", "InstructorPreferences", "Students", "StudentSections", "Locks" >>

\* The dictionaries in which commit_import looks the cells up, by sheet and column.
Lookups ==
  [ Departments |-> [college_code |-> "Colleges"],
    Programs |-> [department_code |-> "Departments"],
    ProgramSubjects |->
      [program_code |-> "Programs", subject_code |-> "Subjects",
       authoritative_college_code |-> "Colleges",
       authoritative_department_code |-> "Departments"],
    Instructors |-> [department_code |-> "Departments"],
    Rooms |->
      [owning_college_code |-> "Colleges", owning_department_code |-> "Departments"],
    LaboratoryProfiles |-> [room_code |-> "Rooms"],
    RoomCapabilities |-> [room_code |-> "Rooms", capability_code |-> "Capabilities"],
    Sections |-> [program_code |-> "Programs"],
    RoomAuthorizations |->
      [room_code |-> "Rooms", college_code |-> "Colleges",
       department_code |-> "Departments"],
    InstructorAvailability |-> [instructor_code |-> "Instructors"],
    RoomAvailability |-> [room_code |-> "Rooms"],
    CourseOfferings |->
      [subject_code |-> "Subjects", offering_department_code |-> "Departments"],
    OfferingSections |-> [offering_key |-> "CourseOfferings", section_code |-> "Sections"],
    OfferingInstructors |->
      [offering_key |-> "CourseOfferings", instructor_code |-> "Instructors"],
    MeetingRequirements |-> [offering_key |-> "CourseOfferings"],
    MeetingCapabilities |->
      [meeting_key |-> "MeetingRequirements", capability_code |-> "Capabilities"],
    InstructorPreferences |-> [instructor_code |-> "Instructors"],
    StudentSections |-> [pseudonymous_code |-> "Students", section_code |-> "Sections"],
    Locks |-> [meeting_key |-> "MeetingRequirements", room_code |-> "Rooms"] ]

Stored == {Order[k] : k \in 1..(next - 1)}
StoredKeys(s) == IF s \in Stored THEN CellsOf(s, Key[s]) ELSE {}

\* Every cell that is looked up names a row that is stored already.
Found(s) ==
  /\ s \in DOMAIN Lookups => \A c \in DOMAIN Lookups[s] :
       \A x \in Column(s, c) \ {None} : <<x>> \in StoredKeys(Lookups[s][c])
  /\ s = "OfferingSections" =>
       CellsOf(s, Key.ProgramSubjects) \subseteq StoredKeys("ProgramSubjects")
  /\ s \in SlotSheets => CellsOf(s, Key.TimeSlots) \subseteq StoredKeys("TimeSlots")

\* Unique constraints that are not the key of a sheet.
Unique ==
  [ Colleges |-> <<"name">>, Departments |-> <<"college_code", "name">>,
    Programs |-> <<"department_code", "name">>, Capabilities |-> <<"name">>,
    TimeSlots |-> <<"day", "starts_at">>,
    MeetingRequirements |-> <<"offering_key", "component", "occurrence_number">> ]

\* PositiveSmallIntegerField
Small == 0..32767

RoomNamed(r) == CHOOSE x \in Rows("Rooms") : x.code = r.room_code

\* clean() and the constraints of the catalog's models.
UnitsAccepted(s) ==
  /\ s = "ProgramSubjects" => UnitsAgree
  /\ s = "Rooms" => \A r \in Rows(s) : OneOf(r.owning_college_code, r.owning_department_code)
  /\ s = "LaboratoryProfiles" => \A r \in Rows(s) : RoomNamed(r).kind = "LABORATORY"

\* With the availabilities, every room of the workbook receives a profile.
CampusAccepted(s) ==
  /\ s = "RoomAvailability" => \A r \in Rows("Rooms") : r.campus = Campus
  /\ s \in {"RoomAuthorizations", "Locks"} => \A r \in Rows(s) : RoomNamed(r).campus = Campus

NumbersAccepted(s) ==
  \A r \in Rows(s) :
    CASE s = "Sections" -> r.year_level \in 1..10
      [] s = "TimeSlots" -> r.sequence \in Small /\ r.starts_at < r.ends_at
      [] s = "MeetingRequirements" ->
           r.occurrence_number \in Small \ {0} /\ r.duration_atoms \in Small \ {0}
      [] s = "InstructorPreferences" -> r.weight \in Small \ {0}
      [] OTHER -> TRUE

\* The rows of a sheet satisfy clean(), the validators and the constraints of
\* their model.
Accepted(s) ==
  /\ Distinct(s, Key[s])
  /\ s \in DOMAIN Unique => Distinct(s, Unique[s])
  /\ s = "RoomAuthorizations" => \A r \in Rows(s) : OneOf(r.college_code, r.department_code)
  /\ s = "OfferingSections" => CurriculumAgrees
  /\ UnitsAccepted(s) /\ CampusAccepted(s) /\ NumbersAccepted(s)

Committing == status = "PREVIEWED" /\ raised = None /\ next <= Len(Order)

StoreSheet ==
  /\ Committing
  /\ Found(Order[next]) /\ Accepted(Order[next])
  /\ next' = next + 1
  /\ UNCHANGED <<workbook, status, raised>>

\* A row names what is not stored, so that a subscript raises (or a .get would
\* silently lose the unit), or its model refuses it: all is rolled back.
RowFails ==
  /\ Committing
  /\ ~(Found(Order[next]) /\ Accepted(Order[next]))
  /\ raised' = IF Found(Order[next]) THEN "ValidationError" ELSE "KeyError"
  /\ UNCHANGED <<workbook, status, next>>

Commit ==
  /\ status = "PREVIEWED"
  /\ next > Len(Order)
  /\ status' = "COMMITTED"
  /\ UNCHANGED <<workbook, next, raised>>

Next == Preview \/ StoreSheet \/ RowFails \/ Commit

Spec == Init /\ [][Next]_vars

-----------------------------------------------------------------------------
TypeOK ==
  /\ DOMAIN workbook \subseteq Sheets
  /\ status \in {"UPLOADED", "INVALID", "PREVIEWED", "COMMITTED"}
  /\ next \in 1..(Len(Order) + 1)
  /\ raised \in {None, "KeyError", "ValidationError"}

\* What the preview of a workbook checked is what the commit needs: it never
\* looks up a code or a slot that the workbook does not define, or that it
\* stores only later.
NothingDangles == raised # "KeyError"

\* Only a clean workbook gets beyond the preview.
WorkbookInv ==
  /\ TypeOK
  /\ status \in {"PREVIEWED", "COMMITTED"} => Clean
  /\ NothingDangles

\* The ways in which a clean workbook may still break the rules of the models.
KnownGaps ==
  \/ \E r \in Rows("Rooms") : r.campus # Campus
  \/ \E p \in Rows("LaboratoryProfiles") :
       \E r \in With("Rooms", "code", p.room_code) : r.kind # "LABORATORY"
  \/ \E s \in DOMAIN Unique \ {"TimeSlots"} : ~Distinct(s, Unique[s])
  \/ ~(Column("Sections", "year_level") \subseteq 1..10)
  \/ ~(Column("InstructorPreferences", "weight") \subseteq Small \ {0})
  \/ ~(Column("TimeSlots", "sequence") \subseteq Small)
  \/ ~(Column("MeetingRequirements", "occurrence_number") \subseteq Small)
  \/ ~(Column("MeetingRequirements", "duration_atoms") \subseteq Small)

\* The models refuse a clean workbook for no other reason: its units, owners,
\* curricula and slots, checked once more by clean() and by the database,
\* satisfy them, also that no two slots of a day begin together.
RefusedForAKnownReason == raised = "ValidationError" => KnownGaps

\* What became a committed revision is complete for build_problem: its active
\* meetings have sections, instructors and, in a laboratory, capabilities;
\* availability was stated for its rooms and instructors; and no two slots of
\* a day overlap, although the preview compares neighbours only.
CommittedIsUsable ==
  status = "COMMITTED" =>
    /\ \A m \in Rows("MeetingRequirements") :
         (Active(m) /\ \E o \in With("CourseOfferings", "external_key", m.offering_key) : Active(o))
           => /\ With("OfferingSections", "offering_key", m.offering_key) # {}
              /\ With("OfferingInstructors", "offering_key", m.offering_key) # {}
              /\ m.component = "LAB" => With("MeetingCapabilities", "meeting_key", m.meeting_key) # {}
    /\ \A r \in Rows("Rooms") :
         \/ ~Active(r) \/ r.assume_fully_available = TRUE
         \/ With("RoomAvailability", "room_code", r.code) # {}
    /\ \A i \in Rows("Instructors") :
         \/ ~Active(i) \/ i.assume_fully_available = TRUE
         \/ With("InstructorAvailability", "instructor_code", i.employee_code) # {}
    /\ \A r1, r2 \in Rows("TimeSlots") :
         r1.day = r2.day /\ r1 # r2 => r1.ends_at <= r2.starts_at \/ r2.ends_at <= r1.starts_at
=============================================================================
