---------------------------- MODULE StartupProofs ----------------------------
(***************************************************************************)
(* Proofs about Startup for any number of starts of the server, at once or *)
(* one after another, each with any argument and broken off anywhere.      *)
(***************************************************************************)
EXTENDS Startup, SequenceTheorems, TLAPS

\* What is left of the script after k statements.
Rest(k) == SubSeq(Script, k + 1, Len(Script))

\* The tables it still drops, and those it still creates.
ToDrop(k) == {Script[i].table : i \in (k + 1)..7}
ToCreate(k) == {Script[i].table : i \in (IF k < 7 THEN 8 ELSE k + 1)..14}

\* What p may rely on after k statements: of the tables it met, it has still
\* to drop those that are left; while it drops, there are others than these
\* only if someone created them; and what it has created is there, if nobody
\* dropped it.
Relies(p, k) ==
  /\ old[p] \subseteq ToDrop(k)
  /\ k < 7 /\ "create" \notin disturbed[p] => tables \subseteq ToDrop(k)
  /\ "drop" \notin disturbed[p] => Table \ ToCreate(k) \subseteq tables

Progress(p, k) ==
  /\ todo[p] = Rest(k)
  /\ pc[p] = "serving" => k = 14
  /\ pc[p] \in {"refused", "orphan"} => k < 14
  /\ pc[p] \in {"running", "serving"} => Relies(p, k)
  /\ pc[p] = "refused" =>
       (IF k < 7 THEN "create" ELSE "drop") \in disturbed[p]

\* The inductive invariant.
IInv ==
  /\ TypeOK
  /\ todo = [p \in Process |-> todo[p]]
  /\ \A p \in Process : \E k \in 0..14 : Progress(p, k)

-----------------------------------------------------------------------------
(* The script *)

\* What a sequence is.
LEMMA SeqFacts ==
  ASSUME NEW S, NEW q \in Seq(S)
  PROVE  /\ Len(q) \in Nat
         /\ DOMAIN q = 1..Len(q)
         /\ \A i \in 1..Len(q) : q[i] \in S
  OBVIOUS

\* The statements of a script.
Step == [verb : {"drop", "create"}, table : Table]

\* A list of statements has one for each table, in the order given.
LEMMA StatementFacts ==
  ASSUME NEW verb \in {"drop", "create"}, NEW order \in Seq(Table)
  PROVE  /\ Statements(verb, order) \in Seq(Step)
         /\ Len(Statements(verb, order)) = Len(order)
         /\ \A i \in 1..Len(order) :
              /\ Statements(verb, order)[i].verb = verb
              /\ Statements(verb, order)[i].table = order[i]
  <1>1. DOMAIN order = 1..Len(order) /\ Len(order) \in Nat
    OBVIOUS
  <1>2. Statements(verb, order) =
          [i \in 1..Len(order) |-> [verb |-> verb, table |-> order[i]]]
    BY <1>1 DEF Statements
  <1>3. \A i \in 1..Len(order) : [verb |-> verb, table |-> order[i]] \in Step
    BY DEF Step
  <1> HIDE DEF Step
  <1>4. QED
    BY <1>1, <1>2, <1>3

\* The statements of clear (DBPostgres.cpp:35-41).
LEMMA ClearFacts ==
  /\ Clear \in Seq(Step)
  /\ Len(Clear) = 7
  /\ \A i \in 1..7 : Clear[i].verb = "drop"
  /\ Clear[1].table = "message"
  /\ Clear[2].table = "control_message"
  /\ Clear[3].table = "channels"
  /\ Clear[4].table = "communities"
  /\ Clear[5].table = "banned_users"
  /\ Clear[6].table = "banned_ips"
  /\ Clear[7].table = "users"
  <1> DEFINE order == <<"message", "control_message", "channels", "communities",
                        "banned_users", "banned_ips", "users">>
  <1>1. order \in Seq(Table) /\ Len(order) = 7
    BY DEF Table
  <1>2. /\ order[1] = "message"
        /\ order[2] = "control_message"
        /\ order[3] = "channels"
        /\ order[4] = "communities"
        /\ order[5] = "banned_users"
        /\ order[6] = "banned_ips"
        /\ order[7] = "users"
    OBVIOUS
  <1>3. Clear = Statements("drop", order)
    BY DEF Clear
  <1> HIDE DEF order
  <1>4. /\ Clear \in Seq(Step)
        /\ Len(Clear) = 7
        /\ \A i \in 1..7 : Clear[i].verb = "drop" /\ Clear[i].table = order[i]
    <2>1. /\ Statements("drop", order) \in Seq(Step)
          /\ Len(Statements("drop", order)) = Len(order)
          /\ \A i \in 1..Len(order) :
               /\ Statements("drop", order)[i].verb = "drop"
               /\ Statements("drop", order)[i].table = order[i]
      BY <1>1, StatementFacts
    <2>2. QED
      BY <1>1, <1>3, <2>1
  <1>5. QED
    BY <1>2, <1>4

\* The statements of validate (DBPostgres.cpp:48-97).
LEMMA ValidateFacts ==
  /\ Validate \in Seq(Step)
  /\ Len(Validate) = 7
  /\ \A i \in 1..7 : Validate[i].verb = "create"
  /\ Validate[1].table = "users"
  /\ Validate[2].table = "banned_users"
  /\ Validate[3].table = "banned_ips"
  /\ Validate[4].table = "communities"
  /\ Validate[5].table = "channels"
  /\ Validate[6].table = "message"
  /\ Validate[7].table = "control_message"
  <1> DEFINE order == <<"users", "banned_users", "banned_ips", "communities",
                        "channels", "message", "control_message">>
  <1>1. order \in Seq(Table) /\ Len(order) = 7
    BY DEF Table
  <1>2. /\ order[1] = "users"
        /\ order[2] = "banned_users"
        /\ order[3] = "banned_ips"
        /\ order[4] = "communities"
        /\ order[5] = "channels"
        /\ order[6] = "message"
        /\ order[7] = "control_message"
    OBVIOUS
  <1>3. Validate = Statements("create", order)
    BY DEF Validate
  <1> HIDE DEF order
  <1>4. /\ Validate \in Seq(Step)
        /\ Len(Validate) = 7
        /\ \A i \in 1..7 : Validate[i].verb = "create" /\ Validate[i].table = order[i]
    <2>1. /\ Statements("create", order) \in Seq(Step)
          /\ Len(Statements("create", order)) = Len(order)
          /\ \A i \in 1..Len(order) :
               /\ Statements("create", order)[i].verb = "create"
               /\ Statements("create", order)[i].table = order[i]
      BY <1>1, StatementFacts
    <2>2. QED
      BY <1>1, <1>3, <2>1
  <1>5. QED
    BY <1>2, <1>4

\* The order of the statements.
LEMMA ScriptFacts ==
  /\ Script \in Seq(Step)
  /\ Len(Script) = 14
  /\ \A i \in 1..7 : Script[i].verb = "drop"
  /\ \A i \in 8..14 : Script[i].verb = "create"
  /\ Script[1].table = "message"
  /\ Script[2].table = "control_message"
  /\ Script[3].table = "channels"
  /\ Script[4].table = "communities"
  /\ Script[5].table = "banned_users"
  /\ Script[6].table = "banned_ips"
  /\ Script[7].table = "users"
  /\ Script[8].table = "users"
  /\ Script[9].table = "banned_users"
  /\ Script[10].table = "banned_ips"
  /\ Script[11].table = "communities"
  /\ Script[12].table = "channels"
  /\ Script[13].table = "message"
  /\ Script[14].table = "control_message"
  <1>0. /\ Clear \in Seq(Step) /\ Len(Clear) = 7
        /\ Validate \in Seq(Step) /\ Len(Validate) = 7
    BY ClearFacts, ValidateFacts
  <1>1. /\ Script \in Seq(Step)
        /\ Len(Script) = 7 + 7
        /\ \A i \in 1..(7 + 7) :
             Script[i] = IF i <= 7 THEN Clear[i] ELSE Validate[i - 7]
    <2>1. /\ Clear \o Validate \in Seq(Step)
          /\ Len(Clear \o Validate) = Len(Clear) + Len(Validate)
          /\ \A i \in 1..Len(Clear) + Len(Validate) : (Clear \o Validate)[i] =
               IF i <= Len(Clear) THEN Clear[i] ELSE Validate[i - Len(Clear)]
      BY <1>0, ConcatProperties
    <2>2. QED
      BY <1>0, <2>1 DEF Script
  <1>2. \A i \in 1..7 : Script[i] = Clear[i] /\ Script[i + 7] = Validate[i]
    BY <1>1
  <1>3. /\ Script[1] = Clear[1] /\ Script[8] = Validate[1]
        /\ Script[2] = Clear[2] /\ Script[9] = Validate[2]
        /\ Script[3] = Clear[3] /\ Script[10] = Validate[3]
        /\ Script[4] = Clear[4] /\ Script[11] = Validate[4]
        /\ Script[5] = Clear[5] /\ Script[12] = Validate[5]
        /\ Script[6] = Clear[6] /\ Script[13] = Validate[6]
        /\ Script[7] = Clear[7] /\ Script[14] = Validate[7]
    BY <1>1
  <1>4. \A i \in 8..14 : i - 7 \in 1..7 /\ Script[i] = Validate[i - 7]
    BY <1>1
  <1>5. Len(Script) = 14
    BY <1>1
  <1>6. /\ \A i \in 1..7 : Script[i].verb = "drop"
        /\ \A i \in 8..14 : Script[i].verb = "create"
    BY <1>2, <1>4, ClearFacts, ValidateFacts
  <1>7. QED
    BY <1>1, <1>3, <1>5, <1>6, ClearFacts, ValidateFacts

\* The second of two lists of seven statements.
LEMMA ConcatTail ==
  ASSUME NEW S, NEW s \in Seq(S), NEW t \in Seq(S), Len(s) = 7, Len(t) = 7
  PROVE  SubSeq(s \o t, 8, 14) = t
  <1>0. \A i \in 8..14 : i - 7 \in 1..7
    OBVIOUS
  <1>a. \A i \in 1..7 : t[i] \in S
    <2>1. \A i \in 1..Len(t) : t[i] \in S
      BY SeqFacts
    <2>2. QED
      BY <2>1
  <1> DEFINE q == s \o t
             u == SubSeq(q, 8, 14)
  <1>1. /\ q \in Seq(S) /\ Len(q) = 14
        /\ \A i \in 8..14 : q[i] = t[i - 7]
    <2>1. /\ q \in Seq(S)
          /\ Len(q) = Len(s) + Len(t)
          /\ \A i \in 1..Len(s) + Len(t) :
               q[i] = IF i <= Len(s) THEN s[i] ELSE t[i - Len(s)]
      BY ConcatProperties
    <2> HIDE DEF q
    <2>2. \A i \in 8..14 : i \in 1..14 /\ ~(i <= 7)
      OBVIOUS
    <2>3. QED
      BY <2>1, <2>2
  <1> HIDE DEF q
  <1>2. /\ u \in Seq(S) /\ Len(u) = 7
        /\ \A i \in 1..7 : u[i] = q[8 + i - 1]
    <2>1. \A i \in 8..14 : q[i] \in S
      BY <1>0, <1>1, <1>a
    <2>2. /\ u \in Seq(S)
          /\ Len(u) = IF 8 <= 14 THEN 14 - 8 + 1 ELSE 0
          /\ \A i \in 1..14 - 8 + 1 : u[i] = q[8 + i - 1]
      BY <2>1, SubSeqProperties
    <2> HIDE DEF u
    <2>3. QED
      BY <2>2
  <1> HIDE DEF u
  <1>3. \A i \in 1..7 : u[i] = t[i]
    <2>1. \A i \in 1..7 : 8 + i - 1 \in 8..14 /\ 8 + i - 1 - 7 = i
      OBVIOUS
    <2>2. QED
      BY <1>1, <1>2, <2>1
  <1>4. u = t
    BY <1>2, <1>3, SeqEqual
  <1>5. QED
    BY <1>4 DEF u, q

\* What is left after k statements begins with the next one.
LEMMA RestFacts ==
  /\ Rest(0) = Clear \o Validate
  /\ Rest(7) = Validate
  /\ Rest(14) = <<>>
  /\ \A k \in 0..13 : /\ Rest(k) # <<>>
                      /\ Head(Rest(k)) = Script[k + 1]
                      /\ Tail(Rest(k)) = Rest(k + 1)
  <1>1. Script \in Seq(Step) /\ Len(Script) = 14
    BY ScriptFacts
  <1>a. /\ Clear \in Seq(Step) /\ Len(Clear) = 7
        /\ Validate \in Seq(Step) /\ Len(Validate) = 7
    BY ClearFacts, ValidateFacts
  <1>2. Rest(0) = Clear \o Validate
    <2>1. Rest(0) = SubSeq(Script, 1, Len(Script))
      BY <1>1 DEF Rest
    <2>2. QED
      BY <1>1, <2>1, SubSeqFull DEF Script
  <1>3. Rest(7) = Validate
    <2>1. Rest(7) = SubSeq(Clear \o Validate, 8, 14)
      BY <1>1 DEF Rest, Script
    <2>2. SubSeq(Clear \o Validate, 8, 14) = Validate
      BY <1>a, ConcatTail
    <2>3. QED
      BY <2>1, <2>2
  <1>4. Rest(14) = <<>>
    BY <1>1, SubSeqEmpty DEF Rest
  <1>5. ASSUME NEW k \in 0..13
        PROVE  /\ Rest(k) # <<>>
               /\ Head(Rest(k)) = Script[k + 1]
               /\ Tail(Rest(k)) = Rest(k + 1)
    <2>1. k + 1 \in 1..14 /\ 14 \in (k + 1)..14
      OBVIOUS
    <2>2. /\ Head(SubSeq(Script, k + 1, 14)) = Script[k + 1]
          /\ Tail(SubSeq(Script, k + 1, 14)) = SubSeq(Script, k + 1 + 1, 14)
      BY <1>1, <2>1, HeadTailOfSubSeq
    <2>3. Len(SubSeq(Script, k + 1, 14)) = 14 - (k + 1) + 1
      <3>1. \A i \in (k + 1)..14 : Script[i] \in Step
        <4>1. \A i \in 1..14 : Script[i] \in Step
          BY <1>1, SeqFacts
        <4>2. QED
          BY <4>1
      <3>2. k + 1 \in Int /\ 14 \in Int /\ k + 1 <= 14
        OBVIOUS
      <3>3. QED
        BY <3>1, <3>2, SubSeqProperties
    <2>4. SubSeq(Script, k + 1, 14) # <<>>
      <3>1. 14 - (k + 1) + 1 # 0
        OBVIOUS
      <3>2. Len(<<>>) = 0
        OBVIOUS
      <3>3. QED
        BY <2>3, <3>1, <3>2
    <2>5. QED
      BY <1>1, <2>2, <2>4 DEF Rest
  <1>6. QED
    BY <1>2, <1>3, <1>4, <1>5

\* The foreign keys of the tables.
LEMMA ReferenceFacts ==
  /\ References("users") = {}
  /\ References("banned_users") = {"users"}
  /\ References("banned_ips") = {}
  /\ References("communities") = {"users"}
  /\ References("channels") = {"communities", "users"}
  /\ References("message") = {"users", "channels"}
  /\ References("control_message") = {"users", "channels"}
  BY DEF References

\* When a table is dropped, what refers to it was dropped before.
LEMMA DropFacts ==
  /\ ToDrop(0) = Table
  /\ \A k \in 7..14 : ToDrop(k) = {}
  /\ \A k \in 0..6 :
       /\ Script[k + 1].verb = "drop"
       /\ ToDrop(k) \ {Script[k + 1].table} \subseteq ToDrop(k + 1)
       /\ \A t \in ToDrop(k) : Script[k + 1].table \notin References(t)
  <1>1. ToDrop(0) = Table
    <2>1. \A t : t \in ToDrop(0) <=> \E i \in 1..7 : t = Script[i].table
      BY DEF ToDrop
    <2>2. \A i \in 1..7 : i = 1 \/ i = 2 \/ i = 3 \/ i = 4 \/ i = 5 \/ i = 6 \/ i = 7
      OBVIOUS
    <2>3. ToDrop(0) \subseteq Table
      BY <2>1, <2>2, ScriptFacts DEF Table
    <2>4. Table \subseteq ToDrop(0)
      BY <2>1, ScriptFacts DEF Table
    <2>5. QED
      BY <2>3, <2>4
  <1>2. \A k \in 7..14 : ToDrop(k) = {}
    <2>1. \A k \in 7..14 : (k + 1)..7 = {}
      OBVIOUS
    <2>2. QED
      BY <2>1 DEF ToDrop
  <1>3. ASSUME NEW k \in 0..6
        PROVE  /\ Script[k + 1].verb = "drop"
               /\ ToDrop(k) \ {Script[k + 1].table} \subseteq ToDrop(k + 1)
    <2>1. k + 1 \in 1..7
      OBVIOUS
    <2>2. \A i \in (k + 1)..7 : i = k + 1 \/ i \in (k + 1 + 1)..7
      OBVIOUS
    <2>3. QED
      BY <2>1, <2>2, ScriptFacts DEF ToDrop
  <1>4. ASSUME NEW k \in 0..6, NEW t \in ToDrop(k)
        PROVE  Script[k + 1].table \notin References(t)
    <2>1. PICK i \in (k + 1)..7 : t = Script[i].table
      BY DEF ToDrop
    <2>2. /\ i = 1 \/ i = 2 \/ i = 3 \/ i = 4 \/ i = 5 \/ i = 6 \/ i = 7
          /\ k + 1 <= i
      OBVIOUS
    <2>3. /\ i = 1 => k + 1 = 1
          /\ i = 2 => k + 1 \in 1..2
          /\ i = 3 => k + 1 \in 1..3
          /\ i = 4 => k + 1 \in 1..4
          /\ i = 5 => k + 1 \in 1..5
      OBVIOUS
    <2>4. /\ \A j \in 1..2 : Script[j].table \in {"message", "control_message"}
          /\ \A j \in 1..3 : Script[j].table \in
                {"message", "control_message", "channels"}
          /\ \A j \in 1..5 : Script[j].table \in
                {"message", "control_message", "channels", "communities",
                 "banned_users"}
      <3>1. /\ \A j \in 1..2 : j = 1 \/ j = 2
            /\ \A j \in 1..3 : j = 1 \/ j = 2 \/ j = 3
            /\ \A j \in 1..5 : j = 1 \/ j = 2 \/ j = 3 \/ j = 4 \/ j = 5
        OBVIOUS
      <3>2. QED
        BY <3>1, ScriptFacts
    <2>5. \A j \in 1..4 : j \in 1..5
      OBVIOUS
    <2>6. CASE i \in {1, 2}
      <3>1. t \in {"message", "control_message"}
        BY <2>1, <2>6, ScriptFacts
      <3>2. Script[k + 1].table \in {"message", "control_message"}
        BY <2>3, <2>4, <2>6, ScriptFacts
      <3>3. QED
        BY <3>1, <3>2, ReferenceFacts
    <2>7. CASE i = 3
      <3>1. t = "channels"
        BY <2>1, <2>7, ScriptFacts
      <3>2. Script[k + 1].table \in {"message", "control_message", "channels"}
        BY <2>3, <2>4, <2>7
      <3>3. QED
        BY <3>1, <3>2, ReferenceFacts
    <2>8. CASE i \in {4, 5}
      BY <2>1, <2>3, <2>4, <2>5, <2>8, ScriptFacts, ReferenceFacts
    <2>9. CASE i \in {6, 7}
      BY <2>1, <2>9, ScriptFacts, ReferenceFacts
    <2>10. QED
      BY <2>2, <2>6, <2>7, <2>8, <2>9
  <1>5. QED
    BY <1>1, <1>2, <1>3, <1>4

\* A table is created after those it refers to.
LEMMA CreateFacts ==
  /\ \A k \in 0..7 : ToCreate(k) = Table
  /\ ToCreate(14) = {}
  /\ \A k \in 7..13 :
       /\ Script[k + 1].verb = "create"
       /\ Script[k + 1].table \in Table
       /\ ToCreate(k) \subseteq ToCreate(k + 1) \cup {Script[k + 1].table}
       /\ References(Script[k + 1].table) \subseteq Table \ ToCreate(k)
  <1>1. ASSUME NEW k \in 0..7 PROVE ToCreate(k) = Table
    <2>1. (IF k < 7 THEN 8 ELSE k + 1) = 8
      OBVIOUS
    <2>2. \A t : t \in ToCreate(k) <=> \E i \in 8..14 : t = Script[i].table
      BY <2>1 DEF ToCreate
    <2>3. \A i \in 8..14 : \/ i = 8 \/ i = 9 \/ i = 10 \/ i = 11
                           \/ i = 12 \/ i = 13 \/ i = 14
      OBVIOUS
    <2>4. ToCreate(k) \subseteq Table
      BY <2>2, <2>3, ScriptFacts DEF Table
    <2>5. Table \subseteq ToCreate(k)
      BY <2>2, ScriptFacts DEF Table
    <2>6. QED
      BY <2>4, <2>5
  <1>2. \A k \in 7..14 : ToCreate(k) = {Script[i].table : i \in (k + 1)..14}
    <2>1. ASSUME NEW k \in 7..14 PROVE (IF k < 7 THEN 8 ELSE k + 1) = k + 1
      OBVIOUS
    <2>2. QED
      BY <2>1 DEF ToCreate
  <1>3. ToCreate(14) = {}
    <2>1. 14 \in 7..14 /\ (14 + 1)..14 = {}
      OBVIOUS
    <2>2. QED
      BY <1>2, <2>1
  <1>4. ASSUME NEW k \in 7..13
        PROVE  /\ Script[k + 1].verb = "create"
               /\ Script[k + 1].table \in Table
               /\ ToCreate(k) \subseteq ToCreate(k + 1) \cup {Script[k + 1].table}
    <2>1. k + 1 \in 8..14 /\ k \in 7..14 /\ k + 1 \in 7..14 /\ k + 1 \in 1..14
      OBVIOUS
    <2>2. \A i \in (k + 1)..14 : i = k + 1 \/ i \in (k + 1 + 1)..14
      OBVIOUS
    <2>3. Script[k + 1].table \in Table
      <3>1. \A i \in 1..14 : Script[i] \in Step
        BY ScriptFacts, SeqFacts
      <3>2. Script[k + 1] \in Step
        BY <2>1, <3>1
      <3>3. QED
        BY <3>2 DEF Step
    <2>4. ToCreate(k) \subseteq ToCreate(k + 1) \cup {Script[k + 1].table}
      BY <1>2, <2>1, <2>2
    <2>5. QED
      BY <2>1, <2>3, <2>4, ScriptFacts
  <1>5. ASSUME NEW k \in 7..13, NEW t \in References(Script[k + 1].table)
        PROVE  t \in Table \ ToCreate(k)
    <2>1. t \in Table
      BY DEF References, Table
    <2>2. /\ \/ k + 1 = 8 \/ k + 1 = 9 \/ k + 1 = 10 \/ k + 1 = 11
             \/ k + 1 = 12 \/ k + 1 = 13 \/ k + 1 = 14
          /\ k \in 7..14
      OBVIOUS
    <2>3. ASSUME t \in ToCreate(k) PROVE FALSE
      <3>1. PICK i \in (k + 1)..14 : t = Script[i].table
        BY <1>2, <2>2, <2>3
      <3>2. /\ k + 1 >= 9 => i \in 9..14
            /\ k + 1 >= 11 => i \in 11..14
            /\ k + 1 >= 12 => i \in 12..14
            /\ k + 1 >= 13 => i \in 13..14
        OBVIOUS
      <3>3. /\ \A j \in 9..14 : Script[j].table # "users"
            /\ \A j \in 12..14 : Script[j].table # "communities"
            /\ \A j \in 13..14 : Script[j].table # "channels"
        <4>1. /\ \A j \in 9..14 : j = 9 \/ j = 10 \/ j = 11 \/ j = 12 \/ j = 13 \/ j = 14
              /\ \A j \in 12..14 : j = 12 \/ j = 13 \/ j = 14
              /\ \A j \in 13..14 : j = 13 \/ j = 14
          OBVIOUS
        <4>2. QED
          BY <4>1, ScriptFacts
      <3>4. CASE k + 1 \in {8, 10}
        BY <3>4, ScriptFacts, ReferenceFacts
      <3>5. CASE k + 1 \in {9, 11}
        BY <3>1, <3>2, <3>3, <3>5, ScriptFacts, ReferenceFacts
      <3>6. CASE k + 1 = 12
        <4>1. i \in 9..14 /\ i \in 12..14
          BY <3>2, <3>6
        <4>2. QED
          BY <3>1, <3>3, <3>6, <4>1, ScriptFacts, ReferenceFacts
      <3>7. CASE k + 1 \in {13, 14}
        <4>1. i \in 9..14 /\ i \in 13..14
          BY <3>2, <3>7
        <4>2. QED
          BY <3>1, <3>3, <3>7, <4>1, ScriptFacts, ReferenceFacts
      <3>8. QED
        BY <2>2, <3>4, <3>5, <3>6, <3>7
    <2>4. QED
      BY <2>1, <2>3
  <1>6. QED
    BY <1>1, <1>3, <1>4, <1>5

-----------------------------------------------------------------------------
(* Steps *)

Labels == {"idle", "running", "serving", "refused", "ended", "orphan"}

\* The types of the variables, from the invariant.
LEMMA TypeFacts ==
  ASSUME IInv
  PROVE  /\ tables \subseteq Table
         /\ pc \in [Process -> Labels]
         /\ todo = [p \in Process |-> todo[p]]
         /\ old \in [Process -> SUBSET tables]
         /\ disturbed \in [Process -> SUBSET {"drop", "create"}]
  BY DEF IInv, TypeOK, Labels

\* Where a process is in the script.
LEMMA PlaceInScript ==
  ASSUME IInv, NEW p \in Process, NEW k \in 0..14, Progress(p, k)
  PROVE  /\ todo[p] = <<>> => k = 14
         /\ k = 14 => todo[p] = <<>>
         /\ k \in 0..13 => /\ Statement(p) = Script[k + 1]
                           /\ Tail(todo[p]) = Rest(k + 1)
  <1>1. todo[p] = Rest(k)
    BY DEF Progress
  <1>2. k = 14 \/ k \in 0..13
    OBVIOUS
  <1>3. QED
    BY <1>1, <1>2, RestFacts DEF Statement

\* The rest of TypeOK follows from the progress of the processes.
Parts ==
  /\ tables \subseteq Table
  /\ pc \in [Process -> Labels]
  /\ old \in [Process -> SUBSET tables]
  /\ disturbed \in [Process -> SUBSET {"drop", "create"}]
  /\ \A p \in Process : \E k \in 0..14 : Progress(p, k)

\* Where each process is in the script implies its type.
LEMMA TypeFromProgress == Parts => TypeOK
  <1> SUFFICES ASSUME Parts PROVE TypeOK
    OBVIOUS
  <1>1. \A p \in Process : \E done \in 0..Len(Script) :
          todo[p] = SubSeq(Script, done + 1, Len(Script))
    BY ScriptFacts DEF Parts, Progress, Rest
  <1>2. \A p \in Process : pc[p] = "serving" => todo[p] = <<>>
    BY RestFacts DEF Parts, Progress
  <1>3. QED
    BY <1>1, <1>2 DEF Parts, TypeOK, Labels

\* No process has started, so each is at the end of the script.
LEMMA InitIInv == Init => IInv
  <1> SUFFICES ASSUME Init PROVE IInv
    OBVIOUS
  <1>1. /\ tables \subseteq Table
        /\ pc \in [Process -> Labels]
        /\ old \in [Process -> SUBSET tables]
        /\ disturbed \in [Process -> SUBSET {"drop", "create"}]
    BY DEF Init, Labels
  <1>2. ASSUME NEW p \in Process PROVE Progress(p, 14)
    BY RestFacts DEF Init, Progress
  <1>3. \A p \in Process : \E k \in 0..14 : Progress(p, k)
    <2>1. 14 \in 0..14
      OBVIOUS
    <2>2. QED
      BY <1>2, <2>1
  <1>4. todo = [p \in Process |-> todo[p]]
    BY DEF Init
  <1>5. QED
    BY <1>1, <1>3, <1>4, TypeFromProgress DEF IInv, Parts

\* A process that neither moves nor sees a table change keeps its place.
LEMMA Frame ==
  ASSUME NEW q \in Process, NEW k \in 0..14, Progress(q, k),
         UNCHANGED <<tables, pc[q], todo[q], old[q], disturbed[q]>>
  PROVE  Progress(q, k)'
  BY DEF Progress, Relies, Rest, ToDrop, ToCreate, Script, Clear, Validate,
         Statements, Table

\* What a statement of p does to the tables and to the history.
LEMMA EffectFacts ==
  ASSUME IInv, NEW p \in Process, NEW k \in 0..13, Progress(p, k), TakeEffect(p)
  PROVE  /\ k < 7 => tables' = tables \ {Script[k + 1].table}
         /\ k >= 7 => tables' = tables \cup {Script[k + 1].table}
         /\ tables' \subseteq Table
         /\ old' \in [Process -> SUBSET tables']
         /\ \A q \in Process : old'[q] = old[q] \cap tables'
         /\ disturbed' \in [Process -> SUBSET {"drop", "create"}]
         /\ disturbed'[p] = disturbed[p]
         /\ \A q \in Process : disturbed[q] \subseteq disturbed'[q]
         /\ \A q \in Process \ {p} : pc[q] \in {"running", "serving"} =>
              /\ "drop" \in disturbed'[q] \/ tables \subseteq tables'
              /\ "create" \in disturbed'[q] \/ tables' \subseteq tables
  <1> DEFINE s == Statement(p)
             t == Script[k + 1].table
  <1>1. s = Script[k + 1]
    <2>1. k \in 0..14
      OBVIOUS
    <2>2. QED
      BY <2>1, PlaceInScript
  <1>2. /\ k < 7 => s.verb = "drop"
        /\ k >= 7 => s.verb = "create" /\ s.table \in Table
    <2>1. /\ k < 7 => k \in 0..6
          /\ k >= 7 => k \in 7..13
      OBVIOUS
    <2>2. QED
      BY <1>1, <2>1, DropFacts, CreateFacts
  <1>3. k < 7 \/ k >= 7
    OBVIOUS
  <1>4. /\ tables' = IF s.verb = "drop" THEN tables \ {s.table}
                                        ELSE tables \cup {s.table}
        /\ old' = [q \in Process |-> old[q] \cap tables']
        /\ disturbed' = [q \in Process |->
             IF q # p /\ pc[q] \in {"running", "serving"} /\ tables' # tables
               THEN disturbed[q] \cup {s.verb} ELSE disturbed[q]]
    BY DEF TakeEffect
  <1>5. s.verb \in {"drop", "create"}
    BY <1>2, <1>3
  <1> HIDE DEF s
  <1>6. /\ k < 7 => tables' = tables \ {t}
        /\ k >= 7 => tables' = tables \cup {t}
        /\ tables' \subseteq Table
    BY <1>1, <1>2, <1>3, <1>4, TypeFacts
  <1>7. /\ old' \in [Process -> SUBSET tables']
        /\ \A q \in Process : old'[q] = old[q] \cap tables'
    BY <1>4
  <1>8. /\ disturbed' \in [Process -> SUBSET {"drop", "create"}]
        /\ disturbed'[p] = disturbed[p]
        /\ \A q \in Process : disturbed[q] \subseteq disturbed'[q]
    BY <1>4, <1>5, TypeFacts
  <1>9. ASSUME NEW q \in Process \ {p}, pc[q] \in {"running", "serving"}
        PROVE  /\ "drop" \in disturbed'[q] \/ tables \subseteq tables'
               /\ "create" \in disturbed'[q] \/ tables' \subseteq tables
    <2>1. disturbed'[q] = IF tables' # tables THEN disturbed[q] \cup {s.verb}
                                              ELSE disturbed[q]
      BY <1>4, <1>9
    <2>2. CASE s.verb = "drop"
      BY <1>4, <2>1, <2>2
    <2>3. CASE s.verb = "create"
      BY <1>4, <2>1, <2>3
    <2>4. QED
      BY <1>5, <2>2, <2>3
  <1>10. QED
    BY <1>6, <1>7, <1>8, <1>9

\* The others see it.
LEMMA OthersKeep ==
  ASSUME IInv, NEW p \in Process, NEW k \in 0..13, Progress(p, k), TakeEffect(p),
         NEW q \in Process \ {p}, NEW i \in 0..14, Progress(q, i),
         UNCHANGED <<pc[q], todo[q]>>
  PROVE  Progress(q, i)'
  <1>1. /\ old'[q] \subseteq old[q]
        /\ disturbed[q] \subseteq disturbed'[q]
        /\ pc[q] \in {"running", "serving"} =>
             /\ "drop" \in disturbed'[q] \/ tables \subseteq tables'
             /\ "create" \in disturbed'[q] \/ tables' \subseteq tables
    BY EffectFacts
  <1>2. /\ Rest(i)' = Rest(i)
        /\ ToDrop(i)' = ToDrop(i)
        /\ ToCreate(i)' = ToCreate(i)
    BY DEF Rest, ToDrop, ToCreate, Script, Clear, Validate, Statements
  <1>3. pc[q] \in {"running", "serving"} => Relies(q, i)'
    BY <1>1, <1>2 DEF Progress, Relies, Table
  <1>4. QED
    BY <1>1, <1>2, <1>3 DEF Progress

\* The statement after k leaves p one further.
LEMMA OwnStatement ==
  ASSUME IInv, NEW p \in Process, NEW k \in 0..13, Progress(p, k), TakeEffect(p),
         pc[p] = "running"
  PROVE  /\ old'[p] \subseteq ToDrop(k + 1)
         /\ k + 1 < 7 /\ "create" \notin disturbed'[p] =>
              tables' \subseteq ToDrop(k + 1)
         /\ "drop" \notin disturbed'[p] =>
              Table \ ToCreate(k + 1) \subseteq tables'
  <1>1. Relies(p, k)
    BY DEF Progress
  <1>2. /\ old'[p] = old[p] \cap tables'
        /\ disturbed'[p] = disturbed[p]
    BY EffectFacts
  <1>3. CASE k < 7
    <2>1. k \in 0..6 /\ k + 1 \in 0..7
      BY <1>3
    <2>2. tables' = tables \ {Script[k + 1].table}
      BY <1>3, EffectFacts
    <2>3. ToDrop(k) \ {Script[k + 1].table} \subseteq ToDrop(k + 1)
      BY <2>1, DropFacts
    <2>4. ToCreate(k + 1) = Table
      BY <2>1, CreateFacts
    <2>5. QED
      BY <1>1, <1>2, <1>3, <2>2, <2>3, <2>4 DEF Relies
  <1>4. CASE k >= 7
    <2>1. k \in 7..13 /\ k \in 7..14 /\ ~(k + 1 < 7)
      BY <1>4
    <2>2. tables' = tables \cup {Script[k + 1].table}
      BY <1>4, EffectFacts
    <2>3. ToDrop(k) = {}
      BY <2>1, DropFacts
    <2>4. ToCreate(k) \subseteq ToCreate(k + 1) \cup {Script[k + 1].table}
      BY <2>1, CreateFacts
    <2>5. QED
      BY <1>1, <1>2, <2>1, <2>2, <2>3, <2>4 DEF Relies
  <1>5. k < 7 \/ k >= 7
    OBVIOUS
  <1>6. QED
    BY <1>3, <1>4, <1>5

\* A statement is refused only when another process created, or dropped, a
\* table since p started.
LEMMA RefusedFacts ==
  ASSUME IInv, NEW p \in Process, NEW k \in 0..13, Progress(p, k), Refuse(p)
  PROVE  (IF k < 7 THEN "create" ELSE "drop") \in disturbed[p]
  <1>1. Relies(p, k)
    BY DEF Progress, Refuse
  <1>2. Statement(p) = Script[k + 1] /\ ~Accepted(Script[k + 1])
    <2>1. k \in 0..14
      OBVIOUS
    <2>2. QED
      BY <2>1, PlaceInScript DEF Refuse
  <1>3. CASE k < 7
    <2>1. k \in 0..6
      BY <1>3
    <2>2. /\ Script[k + 1].verb = "drop"
          /\ \A t \in ToDrop(k) : Script[k + 1].table \notin References(t)
      BY <2>1, DropFacts
    <2>3. ~(tables \subseteq ToDrop(k))
      BY <1>2, <2>2 DEF Accepted
    <2>4. QED
      BY <1>1, <1>3, <2>3 DEF Relies
  <1>4. CASE k >= 7
    <2>1. k \in 7..13
      BY <1>4
    <2>2. /\ Script[k + 1].verb = "create"
          /\ References(Script[k + 1].table) \subseteq Table \ ToCreate(k)
      BY <2>1, CreateFacts
    <2>3. ~(Table \ ToCreate(k) \subseteq tables)
      BY <1>2, <2>2 DEF Accepted
    <2>4. ~(k < 7)
      BY <1>4
    <2>5. QED
      BY <1>1, <2>3, <2>4 DEF Relies
  <1>5. k < 7 \/ k >= 7
    OBVIOUS
  <1>6. QED
    BY <1>3, <1>4, <1>5

\* A statement that leaves its own process at some place of the script.
LEMMA EffectStep ==
  ASSUME IInv, NEW p \in Process, NEW k \in 0..13, Progress(p, k), TakeEffect(p),
         NEW i \in 0..14, Progress(p, i)',
         pc' \in [Process -> Labels],
         todo' = [q \in Process |-> todo'[q]],
         \A q \in Process \ {p} : UNCHANGED <<pc[q], todo[q]>>
  PROVE  IInv'
  <1>1. /\ tables' \subseteq Table
        /\ old' \in [Process -> SUBSET tables']
        /\ disturbed' \in [Process -> SUBSET {"drop", "create"}]
    BY EffectFacts
  <1>2. ASSUME NEW q \in Process PROVE \E j \in 0..14 : Progress(q, j)'
    <2>1. CASE q = p
      BY <2>1
    <2>2. CASE q # p
      <3>1. PICK j \in 0..14 : Progress(q, j)
        BY DEF IInv
      <3>2. q \in Process \ {p}
        BY <2>2
      <3>3. Progress(q, j)'
        BY <3>1, <3>2, OthersKeep
      <3>4. QED
        BY <3>3
    <2>3. QED
      BY <2>1, <2>2
  <1>3. TypeOK'
    <2>1. Table' = Table /\ Labels' = Labels
      BY DEF Table, Labels
    <2>2. Parts'
      BY <1>1, <1>2, <2>1 DEF Parts
    <2>3. QED
      BY <2>2, TypeFromProgress, PTL
  <1>4. QED
    BY <1>2, <1>3 DEF IInv

\* A step that leaves the tables alone and takes one process to some place of
\* the script.
LEMMA QuietStep ==
  ASSUME IInv, NEW p \in Process,
         NEW i \in 0..14, Progress(p, i)',
         pc' \in [Process -> Labels],
         todo' = [q \in Process |-> todo'[q]],
         old' \in [Process -> SUBSET tables],
         UNCHANGED <<tables, disturbed>>,
         \A q \in Process \ {p} : UNCHANGED <<pc[q], todo[q], old[q]>>
  PROVE  IInv'
  <1>1. ASSUME NEW q \in Process PROVE \E j \in 0..14 : Progress(q, j)'
    <2>1. CASE q = p
      BY <2>1
    <2>2. CASE q # p
      <3>1. PICK j \in 0..14 : Progress(q, j)
        BY DEF IInv
      <3>2. UNCHANGED <<tables, pc[q], todo[q], old[q], disturbed[q]>>
        BY <2>2
      <3>3. Progress(q, j)'
        BY <3>1, <3>2, Frame
      <3>4. QED
        BY <3>3
    <2>3. QED
      BY <2>1, <2>2
  <1>2. TypeOK'
    <2>1. Table' = Table /\ Labels' = Labels
      BY DEF Table, Labels
    <2>2. Parts'
      BY <1>1, <2>1, TypeFacts DEF Parts
    <2>3. QED
      BY <2>2, TypeFromProgress, PTL
  <1>3. QED
    BY <1>1, <1>2 DEF IInv

\* The script does not depend on the state.
LEMMA ScriptRigid ==
  /\ \A k : Rest(k)' = Rest(k) /\ ToDrop(k)' = ToDrop(k) /\ ToCreate(k)' = ToCreate(k)
  /\ Table' = Table
  BY DEF Rest, ToDrop, ToCreate, Script, Clear, Validate, Statements, Table

\* A statement that takes effect puts its process one place further.
LEMMA Execution ==
  ASSUME IInv, NEW p \in Process, Execute(p)
  PROVE  IInv'
  <1>1. PICK k \in 0..14 : Progress(p, k)
    BY DEF IInv
  <1>2. k \in 0..13 /\ k + 1 \in 0..14
    <2>1. k # 14
      BY <1>1, PlaceInScript DEF Execute
    <2>2. QED
      BY <2>1
  <1>3. todo'[p] = Rest(k + 1)
    BY <1>1, <1>2, PlaceInScript, TypeFacts DEF Execute
  <1>4. /\ pc[p] = "running" /\ pc' = pc /\ TakeEffect(p)
        /\ todo' = [q \in Process |-> todo'[q]]
        /\ \A q \in Process \ {p} : todo'[q] = todo[q]
    BY TypeFacts DEF Execute
  <1>5. Relies(p, k + 1)'
    BY <1>1, <1>2, <1>4, OwnStatement, ScriptRigid DEF Relies
  <1>6. Progress(p, k + 1)'
    BY <1>3, <1>4, <1>5, ScriptRigid DEF Progress
  <1>7. QED
    BY <1>1, <1>2, <1>4, <1>6, EffectStep, TypeFacts

\* So does a late one of a dead process, which relies on nothing any more.
LEMMA Orphaned ==
  ASSUME IInv, NEW p \in Process, OrphanTakesEffect(p)
  PROVE  IInv'
  <1>1. PICK k \in 0..14 : Progress(p, k)
    BY DEF IInv
  <1>2. k \in 0..13 /\ 14 \in 0..14
    <2>1. k < 14
      BY <1>1 DEF OrphanTakesEffect, Progress
    <2>2. QED
      BY <2>1
  <1>3. /\ TakeEffect(p)
        /\ pc' \in [Process -> Labels]
        /\ pc'[p] = "ended" /\ todo'[p] = <<>>
        /\ todo' = [q \in Process |-> todo'[q]]
        /\ \A q \in Process \ {p} : UNCHANGED <<pc[q], todo[q]>>
    BY TypeFacts DEF OrphanTakesEffect, Goto, Labels
  <1>4. Progress(p, 14)'
    BY <1>3, RestFacts, ScriptRigid DEF Progress
  <1>5. QED
    BY <1>1, <1>2, <1>3, <1>4, EffectStep

\* A start is at the first drop, the first create, or the end.
LEMMA Starting ==
  ASSUME IInv, NEW p \in Process, NEW argument \in Argument, Start(p, argument)
  PROVE  IInv'
  <1>1. /\ pc' \in [Process -> Labels]
        /\ pc'[p] = IF argument = "sqlite" THEN "ended" ELSE "running"
        /\ todo' = [q \in Process |-> todo'[q]]
        /\ todo'[p] = CASE argument = "clear" -> Clear \o Validate
                        [] argument = "none" -> Validate
                        [] OTHER -> <<>>
        /\ old' \in [Process -> SUBSET tables]
        /\ old'[p] = IF argument = "clear" THEN tables ELSE {}
        /\ UNCHANGED <<tables, disturbed>>
        /\ \A q \in Process \ {p} : UNCHANGED <<pc[q], todo[q], old[q]>>
    BY TypeFacts DEF Start, Goto, Labels
  <1>2. argument \in {"none", "clear", "sqlite"}
    BY DEF Argument
  <1>3. CASE argument = "clear"
    <2>1. ToDrop(0) = Table /\ ToCreate(0) = Table
      BY DropFacts, CreateFacts
    <2>2. Relies(p, 0)'
      BY <1>1, <1>3, <2>1, TypeFacts, ScriptRigid DEF Relies
    <2>3. Progress(p, 0)'
      BY <1>1, <1>3, <2>2, RestFacts, ScriptRigid DEF Progress
    <2>4. 0 \in 0..14
      OBVIOUS
    <2>5. QED
      BY <1>1, <2>3, <2>4, QuietStep
  <1>4. CASE argument = "none"
    <2>1. ToCreate(7) = Table /\ ~(7 < 7)
      BY CreateFacts
    <2>2. Relies(p, 7)'
      BY <1>1, <1>4, <2>1, ScriptRigid DEF Relies
    <2>3. Progress(p, 7)'
      BY <1>1, <1>4, <2>2, RestFacts, ScriptRigid DEF Progress
    <2>4. 7 \in 0..14
      OBVIOUS
    <2>5. QED
      BY <1>1, <2>3, <2>4, QuietStep
  <1>5. CASE argument = "sqlite"
    <2>1. Progress(p, 14)'
      BY <1>1, <1>5, RestFacts, ScriptRigid DEF Progress
    <2>2. 14 \in 0..14
      OBVIOUS
    <2>3. QED
      BY <1>1, <2>1, <2>2, QuietStep
  <1>6. QED
    BY <1>2, <1>3, <1>4, <1>5

\* A refused statement blames the others, by what the process relies on.
LEMMA Refusal ==
  ASSUME IInv, NEW p \in Process, Refuse(p)
  PROVE  IInv'
  <1>1. PICK k \in 0..14 : Progress(p, k)
    BY DEF IInv
  <1>2. k \in 0..13 /\ k < 14
    <2>1. k # 14
      BY <1>1, PlaceInScript DEF Refuse
    <2>2. QED
      BY <2>1
  <1>3. /\ pc' \in [Process -> Labels]
        /\ pc'[p] = "refused"
        /\ UNCHANGED <<tables, todo, old, disturbed>>
        /\ \A q \in Process \ {p} : pc'[q] = pc[q]
    BY TypeFacts DEF Refuse, Goto, Labels
  <1>4. Progress(p, k)'
    BY <1>1, <1>2, <1>3, RefusedFacts, ScriptRigid DEF Progress
  <1>5. QED
    BY <1>3, <1>4, TypeFacts, QuietStep

\* A process that serves has the whole script behind it.
LEMMA Serving ==
  ASSUME IInv, NEW p \in Process, RunServer(p)
  PROVE  IInv'
  <1>1. PICK k \in 0..14 : Progress(p, k)
    BY DEF IInv
  <1>2. k = 14
    BY <1>1, PlaceInScript DEF RunServer
  <1>3. /\ pc[p] = "running"
        /\ pc' \in [Process -> Labels]
        /\ pc'[p] \in {"serving", "ended"}
        /\ UNCHANGED <<tables, todo, old, disturbed>>
        /\ \A q \in Process \ {p} : pc'[q] = pc[q]
    BY TypeFacts DEF RunServer, Goto, Labels
  <1>4. Relies(p, 14)'
    BY <1>1, <1>2, <1>3, ScriptRigid DEF Progress, Relies
  <1>5. Progress(p, 14)'
    BY <1>1, <1>2, <1>3, <1>4, ScriptRigid DEF Progress
  <1>6. QED
    BY <1>2, <1>3, <1>5, TypeFacts, QuietStep

\* A process that ends, perhaps with a statement still under way, stays
\* where it is.
LEMMA BreakingOff ==
  ASSUME IInv, NEW p \in Process, BreakOff(p)
  PROVE  IInv'
  <1>1. PICK k \in 0..14 : Progress(p, k)
    BY DEF IInv
  <1>2. /\ UNCHANGED <<tables, old, disturbed>>
        /\ pc' \in [Process -> Labels]
        /\ todo' = [q \in Process |-> todo'[q]]
        /\ \A q \in Process \ {p} : UNCHANGED <<pc[q], todo[q], old[q]>>
    BY TypeFacts DEF BreakOff, Goto, Labels
  <1>3. CASE pc'[p] = "ended" /\ todo'[p] = <<>>
    <2>1. Progress(p, 14)'
      BY <1>3, RestFacts, ScriptRigid DEF Progress
    <2>2. 14 \in 0..14
      OBVIOUS
    <2>3. QED
      BY <1>2, <2>1, <2>2, TypeFacts, QuietStep
  <1>4. CASE pc'[p] = "orphan" /\ todo[p] # <<>> /\ todo' = todo
    <2>1. k < 14
      <3>1. k # 14
        BY <1>1, <1>4, PlaceInScript
      <3>2. QED
        BY <3>1
    <2>2. Progress(p, k)'
      BY <1>1, <1>4, <2>1, ScriptRigid DEF Progress
    <2>3. QED
      BY <1>2, <2>2, TypeFacts, QuietStep
  <1>5. QED
    BY <1>3, <1>4, TypeFacts DEF BreakOff, Goto

-----------------------------------------------------------------------------
(* Theorems *)

\* The inductive invariant holds in every reachable state.
LEMMA Invariance == Spec => []IInv
  <1>1. IInv /\ [Next]_vars => IInv'
    <2> SUFFICES ASSUME IInv, [Next]_vars PROVE IInv'
      OBVIOUS
    <2>1. CASE Next
      BY <2>1, Execution, Orphaned, Starting, Refusal, Serving, BreakingOff
      DEF Next
    <2>2. CASE UNCHANGED vars
      <3>1. UNCHANGED <<tables, pc, todo, old, disturbed>>
        BY <2>2 DEF vars
      <3>2. ASSUME NEW p \in Process, NEW k \in 0..14, Progress(p, k)
            PROVE  Progress(p, k)'
        BY <3>1, <3>2, ScriptRigid DEF Progress, Relies
      <3>3. \A p \in Process : \E k \in 0..14 : Progress(p, k)'
        BY <3>2 DEF IInv
      <3>4. TypeOK'
        BY <3>1 DEF IInv, TypeOK, Table, Script, Clear, Validate, Statements
      <3>5. todo' = [p \in Process |-> todo'[p]]
        BY <3>1 DEF IInv
      <3>6. QED
        BY <3>3, <3>4, <3>5 DEF IInv
    <2>3. QED
      BY <2>1, <2>2
  <1>2. QED
    BY InitIInv, <1>1, PTL DEF Spec

\* Every variable stays in its set, and each process has an end of "clear, then
\* validate" left, whatever the others do (wrongthink.cpp:106-138).
THEOREM TypeCorrect == Spec => []TypeOK
  <1>1. IInv => TypeOK
    BY DEF IInv
  <1>2. QED
    BY Invariance, <1>1, PTL

\* A server that serves has all the tables, whatever broken starts left
\* behind and whatever runs beside it, unless a table was dropped under it
\* (DBPostgres.cpp:33-98, wrongthink.cpp:125-135).
THEOREM ServesComplete == Spec => []SchemaComplete
  <1>1. IInv => SchemaComplete
    <2> SUFFICES ASSUME IInv,
                        NEW p \in Process, pc[p] = "serving",
                        "drop" \notin disturbed[p]
                 PROVE  tables = Table
      BY DEF SchemaComplete
    <2>1. PICK k \in 0..14 : Progress(p, k)
      BY DEF IInv
    <2>2. k = 14 /\ Relies(p, k)
      BY <2>1 DEF Progress
    <2>3. QED
      BY <2>2, CreateFacts, TypeFacts DEF Relies
  <1>2. QED
    BY Invariance, <1>1, PTL

\* No start fails by the order of the statements: one that is refused was
\* refused for what another process dropped or created since it started
\* (DBPostgres.cpp:35-41 against 49-98).
THEOREM RefusedOnlyByOthers == Spec => []RefusedByOthers
  <1>1. IInv => RefusedByOthers
    <2> SUFFICES ASSUME IInv, NEW p \in Process, pc[p] = "refused"
                 PROVE  (IF Statement(p).verb = "drop" THEN "create" ELSE "drop")
                          \in disturbed[p]
      BY DEF RefusedByOthers
    <2>1. PICK k \in 0..14 : Progress(p, k)
      BY DEF IInv
    <2>2. /\ k \in 0..13
          /\ (IF k < 7 THEN "create" ELSE "drop") \in disturbed[p]
      BY <2>1 DEF Progress
    <2>3. Statement(p) = Script[k + 1]
      BY <2>1, <2>2, PlaceInScript
    <2>4. IF k < 7 THEN Script[k + 1].verb = "drop"
                   ELSE Script[k + 1].verb = "create"
      BY <2>2, DropFacts, CreateFacts
    <2>5. QED
      BY <2>2, <2>3, <2>4
  <1>2. QED
    BY Invariance, <1>1, PTL

\* A server started with "clear" serves with no table that is older than its
\* start, whatever other starts create meanwhile (DBPostgres.cpp:33-42 against
\* 49-98).
THEOREM ClearHasForgotten == Spec => []ClearForgets
  <1>1. IInv => ClearForgets
    <2> SUFFICES ASSUME IInv, NEW p \in Process, pc[p] = "serving"
                 PROVE  old[p] = {}
      BY DEF ClearForgets
    <2>1. PICK k \in 0..14 : Progress(p, k)
      BY DEF IInv
    <2>2. k = 14 /\ Relies(p, k) /\ 14 \in 7..14
      BY <2>1 DEF Progress
    <2>3. QED
      BY <2>2, DropFacts DEF Relies
  <1>2. QED
    BY Invariance, <1>1, PTL

=============================================================================
