--------------------------- MODULE MCScheduleSearch ---------------------------
(* Small revisions: two days, at most four usable slots, two rooms, two or   *)
(* three meetings.                                                           *)
EXTENDS ScheduleSearch, TLC

Slot(from, to, usable) == [from |-> from, to |-> to, usable |-> usable]
\* Day 1 has a break between its second and its last slot; day 2 one slot.
Week == (<<1, 1>> :> Slot(0, 1, TRUE)) @@ (<<1, 2>> :> Slot(1, 2, TRUE))
          @@ (<<1, 3>> :> Slot(2, 3, FALSE)) @@ (<<1, 4>> :> Slot(3, 4, TRUE))
          @@ (<<2, 1>> :> Slot(0, 1, TRUE))
\* Three slots in a row on day 1, the last one later than it should start.
Split == (<<1, 1>> :> Slot(0, 1, TRUE)) @@ (<<1, 2>> :> Slot(1, 2, TRUE))
           @@ (<<1, 3>> :> Slot(5, 6, TRUE))
\* Two days of two slots.
Blocks == [a \in (1..2) \X (1..2) |-> Slot(a[2] - 1, a[2], TRUE)]
Hour == (<<1, 1>> :> Slot(0, 1, TRUE))

Grant(class, college, dept) == [class |-> class, college |-> college, dept |-> dept]
Minor == {Grant("MINOR", None, "D1")}
Room(lab, free, caps, grants) ==
  [lab |-> lab, caps |-> caps, grants |-> grants, profiled |-> TRUE, free |-> free]
Person(free) == [profiled |-> TRUE, free |-> free]
Link(class, dept) == [class |-> class, college |-> "C1", dept |-> dept]
Links(S) == [x \in S |-> Link("MINOR", "D2")]
Meeting(links, who, n, group) ==
  [links |-> links, instructors |-> who, duration |-> n, caps |-> {}, lab |-> FALSE,
   offering |-> "O1", group |-> group, offCollege |-> "C2", offDept |-> "D1"]
NoPrefs == [i \in {"I1", "I2"} |-> Empty]
Rev(slots, rooms, people, meeting) ==
  [status |-> "COMMITTED", ours |-> TRUE, slots |-> slots, rooms |-> rooms,
   people |-> people, prefs |-> NoPrefs, meeting |-> meeting, pin |-> Empty, retired |-> {}]
Staff(slots) == [i \in {"I1", "I2"} |-> Person(DOMAIN slots)]
OneRoom(slots) == "R1" :> Room(FALSE, DOMAIN slots, {}, Minor)

\* Two meetings of one section that must fall on different days.
Pair == Rev(Week, OneRoom(Week), Staff(Week),
            (1 :> Meeting(Links({"S1"}), {"I1"}, 1, "G"))
              @@ (2 :> Meeting(Links({"S1"}), {"I2"}, 1, "G")))
\* Three meetings of one section, free to leave gaps around the break.
Loose == Rev(Week, OneRoom(Week), Staff(Week),
             [k \in 1..3 |-> Meeting(Links({"S1"}), {IF k = 3 THEN "I2" ELSE "I1"}, 1, None)])
\* Three meetings for three slots and one room; meeting 1 takes two of them.
Tight == Rev(Split, OneRoom(Split) @@ ("R2" :> Room(TRUE, {<<1, 1>>, <<1, 3>>}, {"K"}, Minor)),
             Staff(Split),
             (1 :> Meeting(Links({"S1"}), {"I1"}, 2, None))
               @@ (2 :> [Meeting(Links({"S1", "S2"}), {"I2"}, 1, None) EXCEPT !.caps = {"K"}])
               @@ (3 :> Meeting(Links({"S2"}), {"I1", "I2"}, 1, None)))
\* The same with meeting 3 pinned, and its instructor's wishes.
Pinned == [Tight EXCEPT
             !.pin = 3 :> [room |-> "R1", start |-> <<1, 3>>],
             !.prefs = ("I1" :> ((<<1, 1>> :> [avoid |-> 2, reward |-> 0])
                                   @@ (<<1, 3>> :> [avoid |-> 0, reward |-> 3])))
                         @@ ("I2" :> (<<1, 1>> :> [avoid |-> 0, reward |-> 1]))]
\* Two meetings, one slot: each is legal alone and no schedule is feasible.
Full == Rev(Hour, OneRoom(Hour) @@ ("R2" :> Room(FALSE, DOMAIN Hour, {}, Minor)), Staff(Hour),
            (1 :> Meeting(Links({"S1"}), {"I1"}, 1, None))
              @@ (2 :> Meeting(Links({"S2"}), {"I1"}, 1, None)))
\* Two locks on the same section at the same time, in different rooms.
Quarrel == [Full EXCEPT !.pin = (1 :> [room |-> "R1", start |-> <<1, 1>>])
                                  @@ (2 :> [room |-> "R2", start |-> <<1, 1>>])]
\* Meeting 1's dearer day is the only one that leaves room for meeting 2: the
\* greedy construction may walk into a conflict that one repair round resolves.
Trap == [Rev(Blocks, OneRoom(Blocks),
             "I1" :> Person(DOMAIN Blocks) @@ "I2" :> Person({<<1, 1>>, <<1, 2>>}),
             (1 :> Meeting(Links({"S1"}), {"I1"}, 2, None))
               @@ (2 :> Meeting(Links({"S1"}), {"I2"}, 1, None)))
          EXCEPT !.prefs = "I1" :> (<<2, 1>> :> [avoid |-> 2, reward |-> 0]) @@ "I2" :> Empty]
\* One meeting and every mixture of three grants, under each classification:
\* the bits of k are the three grants, the class, the section's department and
\* whether the college granted is another college than the section's.
Bit2(k, i) == (k \div (2^i)) % 2 = 1
Policy(k) ==
  LET grants == When(Bit2(k, 0), {Grant("MAJOR", None, "D1")})
                  \cup When(Bit2(k, 1), {Grant("MAJOR", IF Bit2(k, 5) THEN "C2" ELSE "C1", None)})
                  \cup When(Bit2(k, 2), {Grant("MINOR", "C2", None)})
      class == IF Bit2(k, 3) THEN "MAJOR" ELSE "MINOR"
      dept == IF Bit2(k, 4) THEN "D1" ELSE None
  IN [Rev(Hour, "R1" :> Room(FALSE, DOMAIN Hour, {}, grants), Staff(Hour),
          1 :> Meeting("S1" :> Link(class, dept), {"I1"}, 1, None))
        EXCEPT !.status = "VALIDATED"]

Weights(a, b, c, d) == [preference |-> a, section |-> b, instructor |-> c, load |-> d]
Task(r, w, algorithm, generations) ==
  [revision |-> r, weights |-> w, algorithm |-> algorithm, generations |-> generations]
Cases ==
  << Task(Pair, Weights(1, 2, 3, 1), "CP_SAT", 0), Task(Pair, Weights(1, 0, 0, 1), "GA", 0),
     Task(Tight, Weights(1, 2, 3, 1), "CP_SAT", 0), Task(Tight, Weights(1, 1, 1, 0), "GA", 0),
     Task(Pinned, Weights(2, 1, 0, 1), "CP_SAT", 0), Task(Pinned, Weights(1, 1, 1, 1), "GA", 1),
     Task(Full, Weights(1, 1, 1, 1), "CP_SAT", 0), Task(Full, Weights(1, 1, 1, 1), "GA", 0),
     Task(Quarrel, Weights(1, 1, 1, 1), "GA", 0),
     Task(Trap, Weights(1, 1, 1, 1), "GA", 0),
     Task(Loose, Weights(0, 2, 3, 1), "CP_SAT", 0),
     Task([Pair EXCEPT !.status = "DRAFT"], Weights(1, 1, 1, 1), "CP_SAT", 0) >>
MCJob ==
  [ k \in 1..(12 + 64) |->
      IF k <= 12 THEN Cases[k] ELSE Task(Policy(k - 13), Weights(1, 1, 1, 1), "CP_SAT", 0) ]
==============================================================================
