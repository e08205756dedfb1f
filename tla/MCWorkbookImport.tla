--------------------------- MODULE MCWorkbookImport ---------------------------
(* A small valid workbook, and the workbooks that differ from it in up to two *)
(* sheets.                                                                    *)
EXTENDS WorkbookImport, TLC

MCCampus == "Main"
MCCaseFolded == "Main" :> "main" @@ "MAIN" :> "main" @@ "Annex" :> "annex"

College(c, n) == [code |-> c, name |-> n]
Department(c, n, col) == [code |-> c, name |-> n, college_code |-> col]
Curriculum(p, s, v, col, d) ==
  [program_code |-> p, subject_code |-> s, curriculum_version |-> v,
   authoritative_college_code |-> col, authoritative_department_code |-> d]
Section(c, p, y) == [code |-> c, program_code |-> p, year_level |-> y]
Instructor(c, active, full) ==
  [employee_code |-> c, department_code |-> "D1", is_active |-> active,
   assume_fully_available |-> full]
Room(c, campus, kind, col, d, full) ==
  [code |-> c, campus |-> campus, kind |-> kind, owning_college_code |-> col,
   owning_department_code |-> d, is_active |-> None, assume_fully_available |-> full]
Slot(d, n, from, to) == [day |-> d, sequence |-> n, starts_at |-> from, ends_at |-> to]
Offering(k, s, active) ==
  [external_key |-> k, subject_code |-> s, offering_department_code |-> "D1",
   is_active |-> active]
Link(o, x, p, s, v) ==
  [offering_key |-> o, section_code |-> x, program_code |-> p, subject_code |-> s,
   curriculum_version |-> v]
Meeting(k, o, comp, n, d) ==
  [meeting_key |-> k, offering_key |-> o, component |-> comp,
   occurrence_number |-> n, duration_atoms |-> d, is_active |-> None]
Grant(r, col, d) ==
  [room_code |-> r, classification |-> "MAJOR", college_code |-> col, department_code |-> d]
At(who, x, d, n) == who :> x @@ [day |-> d, sequence |-> n]

Slots == {Slot(0, 0, 8, 9), Slot(0, 1, 9, 10), Slot(1, 0, 8, 9)}
Lab == Room("R1", "Main", "LABORATORY", None, "D1", None)
Hall == Room("R2", "Main", "CLASSROOM", "C1", None, TRUE)
Lecture == Meeting("M1", "O1", "LECTURE", 1, 2)
Practice == Meeting("M2", "O1", "LAB", 1, 1)

Base ==
  [ Colleges |-> {College("C1", "Science"), College("C2", "Arts")},
    Departments |-> {Department("D1", "Physics", "C1"), Department("D2", "Music", "C2")},
    Programs |-> {[code |-> "P1", name |-> "BSc", department_code |-> "D1"],
                  [code |-> "P2", name |-> "BA", department_code |-> "D2"]},
    Subjects |-> {[code |-> "S1"], [code |-> "S2"]},
    ProgramSubjects |-> {Curriculum("P1", "S1", "2024", "C1", "D1"),
                         Curriculum("P2", "S2", "2025", "C2", None)},
    Sections |-> {Section("X1", "P1", 1)},
    Instructors |-> {Instructor("I1", None, None), Instructor("I2", TRUE, TRUE)},
    Rooms |-> {Lab, Hall},
    Capabilities |-> {[code |-> "K1", name |-> "Bench"]},
    RoomCapabilities |-> {[room_code |-> "R1", capability_code |-> "K1"]},
    RoomAuthorizations |-> {Grant("R1", "C1", None), Grant("R2", None, "D1")},
    TimeSlots |-> Slots,
    CourseOfferings |-> {Offering("O1", "S1", None)},
    OfferingSections |-> {Link("O1", "X1", "P1", "S1", "2024")},
    OfferingInstructors |-> {[offering_key |-> "O1", instructor_code |-> "I1"]},
    MeetingRequirements |-> {Lecture, Practice},
    MeetingCapabilities |-> {[meeting_key |-> "M2", capability_code |-> "K1"]},
    InstructorAvailability |-> {At("instructor_code", "I1", 0, 0)},
    RoomAvailability |-> {At("room_code", "R1", 0, 1)},
    Students |-> {[pseudonymous_code |-> "N1"]},
    StudentSections |-> {[pseudonymous_code |-> "N1", section_code |-> "X1"]},
    InstructorPreferences |-> {At("instructor_code", "I1", 0, 1) @@ [weight |-> 1]},
    LaboratoryProfiles |-> {[room_code |-> "R1"]},
    Locks |-> {[meeting_key |-> "M1"] @@ At("room_code", "R2", 0, 0)} ]

\* Other contents of a sheet, most of them wrong in one way.
Others ==
  [ Colleges |-> {{}, {College("C1", "Science")},
                  {College("C1", "Science"), College("C2", "Science")},
                  {College("C1", "Science"), College("C1", "Arts")}},
    Departments |-> {{Department("D1", "Physics", "C1"), Department("D2", "Music", "C3")},
                     {Department("D1", "Physics", "C2"), Department("D2", "Music", "C2")},
                     {Department("D1", "Physics", "C1"), Department("D2", "Physics", "C1")}},
    Programs |-> {{[code |-> "P1", name |-> "BSc", department_code |-> None],
                   [code |-> "P2", name |-> "BA", department_code |-> "D2"]},
                  {[code |-> "P2", name |-> "BA", department_code |-> "D2"]}},
    Subjects |-> {{[code |-> "S1"]}},
    ProgramSubjects |-> {{Curriculum("P1", "S1", "2024", "C1", "D2")},
                         {Curriculum("P1", "S1", "2025", "C1", None),
                          Curriculum("P2", "S2", "2024", "C2", None)}},
    Sections |-> {{}, {Section("X1", "P2", 1)}, {Section("X1", "P1", 0)},
                  {Section("X1", "P1", 11)}, {Section("X2", "P1", 10)}},
    Instructors |-> {{Instructor("I1", None, None)}, {Instructor("I2", None, FALSE)},
                     {Instructor("I1", FALSE, None), Instructor("I2", FALSE, FALSE)}},
    Rooms |-> {{Lab}, {Hall}, {Lab, [Hall EXCEPT !.campus = "MAIN"]},
               {Lab, [Hall EXCEPT !.campus = "Annex"]},
               {Lab, [Hall EXCEPT !.owning_department_code = "D1"]},
               {Lab, [Hall EXCEPT !.kind = "LABORATORY"]},
               {Lab, [Hall EXCEPT !.kind = Unreadable]},
               {[Lab EXCEPT !.kind = "CLASSROOM"], Hall}},
    Capabilities |-> {{}, {[code |-> "K1", name |-> "Bench"], [code |-> "K2", name |-> "Bench"]}},
    RoomCapabilities |-> {{}, {[room_code |-> "R3", capability_code |-> "K1"]}},
    RoomAuthorizations |-> {{}, {Grant("R1", "C1", "D1")}, {Grant("R1", None, "D3")}},
    TimeSlots |-> {{}, {Slot(0, 0, 8, 9), Slot(0, 1, 8, 10), Slot(1, 0, 8, 9)},
                   {Slot(0, 0, 9, 10), Slot(0, 1, 8, 9)},
                   {Slot(0, 0, 8, 9), Slot(0, 1, 10, 11), Slot(0, 7, 9, 11)},
                   {Slot(0, 0, 8, 9), Slot(0, 1, 9, 9)},
                   {Slot(0, -1, 7, 8)} \cup Slots, {Slot(0, 40000, 10, 11)} \cup Slots},
    CourseOfferings |-> {{Offering("O1", "S2", None)}, {Offering("O1", "S1", FALSE)},
                         {Offering("O1", "S1", None), Offering("O2", "S2", TRUE)},
                         {Offering("O1", "S1", None), Offering("O2", "S2", FALSE)}},
    OfferingSections |-> {{}, {Link("O1", "X1", "P1", "S1", "2025")},
                          {Link("O1", "X1", "P2", "S1", "2024")}},
    OfferingInstructors |-> {{}, {[offering_key |-> "O1", instructor_code |-> "I3"]},
                             {[offering_key |-> "O2", instructor_code |-> "I2"]}},
    MeetingRequirements |-> {{Lecture}, {Practice, [Lecture EXCEPT !.component = "LAB"]},
                             {Lecture, [Practice EXCEPT !.component = "LECTURE"]},
                             {Practice, [Lecture EXCEPT !.occurrence_number = 0]},
                             {Practice, [Lecture EXCEPT !.duration_atoms = 40000]},
                             {Practice, [Lecture EXCEPT !.offering_key = "O2"]}},
    MeetingCapabilities |-> {{}, {[meeting_key |-> "M2", capability_code |-> "K2"]}},
    InstructorAvailability |-> {{}, {At("instructor_code", "I1", 1, 1)}},
    RoomAvailability |-> {{}, {At("room_code", "R1", 1, 1)}},
    Students |-> {{}},
    StudentSections |-> {{}, {[pseudonymous_code |-> "N1", section_code |-> "X2"]}},
    InstructorPreferences |-> {{}, {At("instructor_code", "I1", 0, 1) @@ [weight |-> 0]},
                               {At("instructor_code", "I2", 1, 1) @@ [weight |-> 1]}},
    LaboratoryProfiles |-> {{}, {[room_code |-> "R1"], [room_code |-> "R2"]}},
    Locks |-> {{}, {[meeting_key |-> "M3"] @@ At("room_code", "R2", 0, 0)}} ]

Without(s) == [t \in Sheets \ {s} |-> Base[t]]

MCWorkbooks ==
  {Base} \cup {Without(s) : s \in Sheets} \cup {[Base EXCEPT ![s] = Unreadable] : s \in Sheets}
    \cup UNION {UNION {{[Base EXCEPT ![Order[i]] = x, ![Order[j]] = y] :
                   x \in Others[Order[i]], y \in Others[Order[j]]} : i \in 1..j} :
                 j \in DOMAIN Order}
=============================================================================
