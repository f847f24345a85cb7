--------------------------- MODULE SessionsProofs ---------------------------
(***************************************************************************)
(* Proofs about Sessions for any number of listeners, streams, single      *)
(* messages, bans, other calls and connections.                            *)
(***************************************************************************)
EXTENDS Sessions, FiniteSetTheorems, SequenceTheorems, TLAPS

\* The most sessions a call can have.
Limit(c) == IF c \in Stream THEN 3 ELSE 2

\* What op makes of x sessions, y; statements need one.  A listener's session would go with the
\* end of its waiting, which never comes; who reads has one session.
Turns(x, op, y, limit) ==
  /\ op \in {"check", "open"} => y = x + 1
  /\ op \in {"vet", "query", "channel"} => y = x /\ x # 0
  /\ op \in {"close", "listen"} => x = y + 1
  /\ op = "read" => x = 1 /\ y = 1 /\ limit = 3

\* The operations of p lead from a sessions to b, never above the limit: d[i]
\* is how many there are after i of them.
Leads(p, a, b, limit) ==
  \E d \in [0..Len(p) -> 0..limit] :
    /\ d[0] = a
    /\ d[Len(p)] = b
    /\ \A i \in 1..Len(p) : Turns(d[i - 1], p[i], d[i], limit)

\* The inductive invariant: what a call has still to do gives back what it
\* holds, and the connections are those of the calls and of dead processes.
PlanOK(c) ==
  /\ plan[c] \in Seq(Operation)
  /\ Leads(plan[c], held[c], 0, Limit(c))

IInv ==
  /\ up \in BOOLEAN
  /\ connections \in 0..MaxConnections
  /\ lingering \in Nat
  /\ plan = [c \in Call |-> plan[c]]
  /\ held \in [Call -> 0..3]
  /\ status \in [Call -> StatusCode]
  /\ \A c \in Call : PlanOK(c)
  /\ connections = lingering + Total(held)

-----------------------------------------------------------------------------
(* Plans *)

\* A plan starts and ends within the limit.
LEMMA LeadsBounds ==
  ASSUME NEW limit \in Nat, NEW p \in Seq(Operation), NEW a, NEW b,
         Leads(p, a, b, limit)
  PROVE  a \in 0..limit /\ b \in 0..limit
  <1>1. Len(p) \in Nat /\ 0 \in 0..Len(p) /\ Len(p) \in 0..Len(p)
    OBVIOUS
  <1>2. QED
    BY <1>1 DEF Leads

\* Nothing left to do leads nowhere else.
LEMMA LeadsEmpty ==
  ASSUME NEW limit \in Nat
  PROVE  /\ \A a \in 0..limit : Leads(<<>>, a, a, limit)
         /\ \A a, b : Leads(<<>>, a, b, limit) => a = b
  <1>1. Len(<<>>) = 0 /\ 0..0 = {0} /\ 1..0 = {}
    OBVIOUS
  <1>2. ASSUME NEW a \in 0..limit PROVE Leads(<<>>, a, a, limit)
    <2> DEFINE d == [i \in {0} |-> a]
    <2>1. d \in [0..Len(<<>>) -> 0..limit] /\ d[0] = a
      BY <1>1
    <2>2. QED
      BY <1>1, <2>1 DEF Leads
  <1>3. ASSUME NEW a, NEW b, Leads(<<>>, a, b, limit) PROVE a = b
    BY <1>1, <1>3 DEF Leads
  <1>4. QED
    BY <1>2, <1>3

\* The first operation, and the rest.
LEMMA LeadsTail ==
  ASSUME NEW limit \in Nat, NEW p \in Seq(Operation), p # <<>>, NEW a, NEW b,
         Leads(p, a, b, limit)
  PROVE  \E n \in 0..limit : /\ Turns(a, Head(p), n, limit)
                             /\ Leads(Tail(p), n, b, limit)
  <1>1. PICK d \in [0..Len(p) -> 0..limit] :
          /\ d[0] = a
          /\ d[Len(p)] = b
          /\ \A i \in 1..Len(p) : Turns(d[i - 1], p[i], d[i], limit)
    BY DEF Leads
  <1>2. /\ Len(p) \in Nat /\ Len(p) >= 1
        /\ Tail(p) \in Seq(Operation)
        /\ Len(Tail(p)) = Len(p) - 1
        /\ \A i \in 1..Len(Tail(p)) : Tail(p)[i] = p[i + 1]
        /\ Head(p) = p[1]
    BY HeadTailProperties
  <1> DEFINE e == [i \in 0..(Len(p) - 1) |-> d[i + 1]]
  <1>3. e \in [0..Len(Tail(p)) -> 0..limit]
    <2>1. \A i \in 0..(Len(p) - 1) : i + 1 \in 0..Len(p)
      BY <1>2
    <2>2. QED
      BY <1>2, <2>1
  <1>4. e[0] = d[1] /\ e[Len(Tail(p))] = b
    BY <1>1, <1>2
  <1>5. ASSUME NEW i \in 1..Len(Tail(p))
        PROVE  Turns(e[i - 1], Tail(p)[i], e[i], limit)
    <2>1. /\ i + 1 \in 1..Len(p)
          /\ i - 1 \in 0..(Len(p) - 1) /\ i \in 0..(Len(p) - 1)
          /\ (i - 1) + 1 = i /\ (i + 1) - 1 = i
      BY <1>2
    <2>2. e[i - 1] = d[i] /\ e[i] = d[i + 1]
      BY <2>1
    <2>3. Turns(d[i], p[i + 1], d[i + 1], limit)
      BY <1>1, <2>1
    <2>4. Tail(p)[i] = p[i + 1]
      BY <1>2
    <2>5. QED
      BY <2>2, <2>3, <2>4
  <1>6. Leads(Tail(p), d[1], b, limit)
    <2> HIDE DEF e
    <2>1. QED
      BY <1>3, <1>4, <1>5 DEF Leads
  <1>7. Turns(a, Head(p), d[1], limit) /\ d[1] \in 0..limit
    <2>1. 1 \in 1..Len(p) /\ 1 - 1 = 0 /\ 1 \in 0..Len(p)
      BY <1>2
    <2>2. QED
      BY <1>1, <1>2, <2>1
  <1>8. QED
    BY <1>6, <1>7

\* One plan after another leads from the start of the first to the end of
\* the second.
LEMMA LeadsConcat ==
  ASSUME NEW limit \in Nat, NEW p \in Seq(Operation), NEW q \in Seq(Operation),
         NEW a, NEW b, NEW c, Leads(p, a, b, limit), Leads(q, b, c, limit)
  PROVE  p \o q \in Seq(Operation) /\ Leads(p \o q, a, c, limit)
  <1>1. PICK d \in [0..Len(p) -> 0..limit] :
          /\ d[0] = a
          /\ d[Len(p)] = b
          /\ \A i \in 1..Len(p) : Turns(d[i - 1], p[i], d[i], limit)
    BY DEF Leads
  <1>2. PICK f \in [0..Len(q) -> 0..limit] :
          /\ f[0] = b
          /\ f[Len(q)] = c
          /\ \A i \in 1..Len(q) : Turns(f[i - 1], q[i], f[i], limit)
    BY DEF Leads
  <1>3. /\ p \o q \in Seq(Operation)
        /\ Len(p \o q) = Len(p) + Len(q)
        /\ \A i \in 1..Len(p) + Len(q) :
             (p \o q)[i] = IF i <= Len(p) THEN p[i] ELSE q[i - Len(p)]
        /\ Len(p) \in Nat /\ Len(q) \in Nat
    BY ConcatProperties
  <1> DEFINE m == Len(p)
             n == Len(q)
             e == [i \in 0..(m + n) |-> IF i <= m THEN d[i] ELSE f[i - m]]
  <1>4. e \in [0..Len(p \o q) -> 0..limit]
    <2>1. ASSUME NEW i \in 0..(m + n) PROVE e[i] \in 0..limit
      <3>1. (i <= m => i \in 0..m) /\ (~(i <= m) => i - m \in 0..n)
        BY <1>3
      <3>2. QED
        BY <1>1, <1>2, <3>1
    <2>2. QED
      BY <1>3, <2>1
  <1>5. e[0] = a
    BY <1>1, <1>3
  <1>6. e[Len(p \o q)] = c
    <2>1. CASE n = 0
      BY <1>1, <1>2, <1>3, <2>1
    <2>2. CASE n # 0
      <3>1. ~(m + n <= m) /\ (m + n) - m = n /\ m + n \in 0..(m + n)
        BY <1>3, <2>2
      <3>2. QED
        BY <1>2, <1>3, <3>1
    <2>3. QED
      BY <2>1, <2>2
  <1>7. ASSUME NEW i \in 1..Len(p \o q)
        PROVE  Turns(e[i - 1], (p \o q)[i], e[i], limit)
    <2>0. i \in 1..(m + n) /\ i - 1 \in 0..(m + n) /\ i \in 0..(m + n)
      BY <1>3
    <2>1. CASE i <= m
      <3>1. i \in 1..m /\ i - 1 <= m
        BY <1>3, <2>0, <2>1
      <3>2. e[i - 1] = d[i - 1] /\ e[i] = d[i] /\ (p \o q)[i] = p[i]
        BY <1>3, <2>0, <2>1, <3>1
      <3>3. QED
        BY <1>1, <3>1, <3>2
    <2>2. CASE i = m + 1
      <3>1. /\ i - 1 = m /\ i - m = 1 /\ ~(i <= m) /\ m <= m
            /\ 1 \in 1..n /\ 1 - 1 = 0
        BY <1>3, <2>0, <2>2
      <3>2. e[i - 1] = d[m] /\ e[i] = f[1] /\ (p \o q)[i] = q[1]
        BY <1>3, <2>0, <3>1
      <3>3. Turns(f[0], q[1], f[1], limit)
        BY <1>2, <3>1
      <3>4. QED
        BY <1>1, <1>2, <3>2, <3>3
    <2>3. CASE i > m + 1
      <3>1. /\ ~(i - 1 <= m) /\ ~(i <= m)
            /\ i - m \in 1..n /\ (i - 1) - m = (i - m) - 1
        BY <1>3, <2>0, <2>3
      <3>2. /\ e[i - 1] = f[(i - m) - 1] /\ e[i] = f[i - m]
            /\ (p \o q)[i] = q[i - m]
        BY <1>3, <2>0, <3>1
      <3>3. QED
        BY <1>2, <3>1, <3>2
    <2>4. i <= m \/ i = m + 1 \/ i > m + 1
      <3>1. m \in Int /\ i \in Int
        BY <1>3, <2>0
      <3> HIDE DEF m
      <3>2. QED
        BY <3>1
    <2>5. QED
      BY <2>1, <2>2, <2>3, <2>4
  <1>8. QED
    <2> HIDE DEF e
    <2>1. QED
      BY <1>3, <1>4, <1>5, <1>6, <1>7 DEF Leads

\* A session that is opened, used and closed.
LEMMA ScopeLeads ==
  ASSUME NEW limit \in Nat, NEW n \in Nat, n + 1 <= limit,
         NEW open \in {"check", "open"}, NEW query \in {"vet", "query"}
  PROVE  /\ <<open, query, "close">> \in Seq(Operation)
         /\ Leads(<<open, query, "close">>, n, n, limit)
  <1> DEFINE p == <<open, query, "close">>
             d == [i \in 0..3 |-> IF i \in {1, 2} THEN n + 1 ELSE n]
  <1>1. /\ p \in Seq(Operation) /\ Len(p) = 3
        /\ p[1] = open /\ p[2] = query /\ p[3] = "close"
    BY DEF Operation
  <1>2. /\ d \in [0..3 -> 0..limit]
        /\ d[0] = n /\ d[1] = n + 1 /\ d[2] = n + 1 /\ d[3] = n
    OBVIOUS
  <1> HIDE DEF p, d
  <1>3. /\ Turns(d[0], p[1], d[1], limit) /\ Turns(d[1], p[2], d[2], limit)
        /\ Turns(d[2], p[3], d[3], limit)
    BY <1>1, <1>2 DEF Turns
  <1>4. \A i \in 1..3 :
          \/ i = 1 /\ i - 1 = 0
          \/ i = 2 /\ i - 1 = 1
          \/ i = 3 /\ i - 1 = 2
    OBVIOUS
  <1>5. \A i \in 1..3 : Turns(d[i - 1], p[i], d[i], limit)
    BY <1>3, <1>4
  <1>6. Leads(p, n, n, limit)
    BY <1>1, <1>2, <1>5 DEF Leads
  <1>7. QED
    BY <1>1, <1>6 DEF p

\* One inside the other.
LEMMA NestLeads ==
  ASSUME NEW limit \in Nat, NEW n \in Nat, n + 2 <= limit,
         NEW open \in {"check", "open"}, NEW query \in {"vet", "query"}
  PROVE  /\ <<open, query, open, query, "close", query, "close">> \in Seq(Operation)
         /\ Leads(<<open, query, open, query, "close", query, "close">>, n, n, limit)
  <1> DEFINE p == <<open, query, open, query, "close", query, "close">>
             d == [i \in 0..7 |-> IF i \in {3, 4} THEN n + 2
                                  ELSE IF i \in {0, 7} THEN n ELSE n + 1]
  <1>1. /\ p \in Seq(Operation) /\ Len(p) = 7
        /\ p[1] = open /\ p[2] = query /\ p[3] = open /\ p[4] = query
        /\ p[5] = "close" /\ p[6] = query /\ p[7] = "close"
    BY DEF Operation
  <1>2. /\ d \in [0..7 -> 0..limit]
        /\ d[0] = n /\ d[1] = n + 1 /\ d[2] = n + 1 /\ d[3] = n + 2
        /\ d[4] = n + 2 /\ d[5] = n + 1 /\ d[6] = n + 1 /\ d[7] = n
    OBVIOUS
  <1> HIDE DEF p, d
  <1>3. /\ Turns(d[0], p[1], d[1], limit) /\ Turns(d[1], p[2], d[2], limit)
        /\ Turns(d[2], p[3], d[3], limit) /\ Turns(d[3], p[4], d[4], limit)
        /\ Turns(d[4], p[5], d[5], limit) /\ Turns(d[5], p[6], d[6], limit)
        /\ Turns(d[6], p[7], d[7], limit)
    BY <1>1, <1>2 DEF Turns
  <1>4. \A i \in 1..7 :
          \/ i = 1 /\ i - 1 = 0
          \/ i = 2 /\ i - 1 = 1
          \/ i = 3 /\ i - 1 = 2
          \/ i = 4 /\ i - 1 = 3
          \/ i = 5 /\ i - 1 = 4
          \/ i = 6 /\ i - 1 = 5
          \/ i = 7 /\ i - 1 = 6
    OBVIOUS
  <1>5. \A i \in 1..7 : Turns(d[i - 1], p[i], d[i], limit)
    BY <1>3, <1>4
  <1>6. Leads(p, n, n, limit)
    BY <1>1, <1>2, <1>5 DEF Leads
  <1>7. QED
    BY <1>1, <1>6 DEF p

\* A listener's handler.
LEMMA ListenLeads ==
  ASSUME NEW limit \in Nat, 1 <= limit
  PROVE  /\ <<"open", "channel", "listen">> \in Seq(Operation)
         /\ Leads(<<"open", "channel", "listen">>, 0, 0, limit)
  <1> DEFINE p == <<"open", "channel", "listen">>
             d == [i \in 0..3 |-> IF i \in {1, 2} THEN 1 ELSE 0]
  <1>1. /\ p \in Seq(Operation) /\ Len(p) = 3
        /\ p[1] = "open" /\ p[2] = "channel" /\ p[3] = "listen"
    BY DEF Operation
  <1>2. /\ d \in [0..3 -> 0..limit]
        /\ d[0] = 0 /\ d[1] = 1 /\ d[2] = 1 /\ d[3] = 0
    OBVIOUS
  <1> HIDE DEF p, d
  <1>3. /\ Turns(d[0], p[1], d[1], limit) /\ Turns(d[1], p[2], d[2], limit)
        /\ Turns(d[2], p[3], d[3], limit)
    BY <1>1, <1>2 DEF Turns
  <1>4. \A i \in 1..3 :
          \/ i = 1 /\ i - 1 = 0
          \/ i = 2 /\ i - 1 = 1
          \/ i = 3 /\ i - 1 = 2
    OBVIOUS
  <1>5. \A i \in 1..3 : Turns(d[i - 1], p[i], d[i], limit)
    BY <1>3, <1>4
  <1>6. Leads(p, 0, 0, limit)
    BY <1>1, <1>2, <1>5 DEF Leads
  <1>7. QED
    BY <1>1, <1>6 DEF p

\* A stream's handler: its session is open while it reads.
LEMMA ReadLeads ==
  /\ <<"open", "query", "read", "close">> \in Seq(Operation)
  /\ Leads(<<"open", "query", "read", "close">>, 0, 0, 3)
  <1> DEFINE p == <<"open", "query", "read", "close">>
             d == [i \in 0..4 |-> IF i \in {1, 2, 3} THEN 1 ELSE 0]
  <1>1. /\ p \in Seq(Operation) /\ Len(p) = 4
        /\ p[1] = "open" /\ p[2] = "query" /\ p[3] = "read" /\ p[4] = "close"
    BY DEF Operation
  <1>2. /\ d \in [0..4 -> 0..3]
        /\ d[0] = 0 /\ d[1] = 1 /\ d[2] = 1 /\ d[3] = 1
        /\ d[4] = 0
    OBVIOUS
  <1> HIDE DEF p, d
  <1>3. /\ Turns(d[0], p[1], d[1], 3) /\ Turns(d[1], p[2], d[2], 3)
        /\ Turns(d[2], p[3], d[3], 3) /\ Turns(d[3], p[4], d[4], 3)
    BY <1>1, <1>2 DEF Turns
  <1>4. \A i \in 1..4 :
          \/ i = 1 /\ i - 1 = 0
          \/ i = 2 /\ i - 1 = 1
          \/ i = 3 /\ i - 1 = 2
          \/ i = 4 /\ i - 1 = 3
    OBVIOUS
  <1>5. \A i \in 1..4 : Turns(d[i - 1], p[i], d[i], 3)
    BY <1>3, <1>4
  <1>6. Leads(p, 0, 0, 3)
    BY <1>1, <1>2, <1>5 DEF Leads
  <1>7. QED
    BY <1>1, <1>6 DEF p

\* What a stream does with a message, in the session it has.
LEMMA StoreLeads ==
  /\ <<"channel", "query">> \in Seq(Operation)
  /\ Leads(<<"channel", "query">>, 1, 1, 3)
  <1> DEFINE p == <<"channel", "query">>
             d == [i \in 0..2 |-> 1]
  <1>1. /\ p \in Seq(Operation) /\ Len(p) = 2
        /\ p[1] = "channel" /\ p[2] = "query"
    BY DEF Operation
  <1>2. /\ d \in [0..2 -> 0..3]
        /\ d[0] = 1 /\ d[1] = 1 /\ d[2] = 1
    OBVIOUS
  <1> HIDE DEF p, d
  <1>3. /\ Turns(d[0], p[1], d[1], 3) /\ Turns(d[1], p[2], d[2], 3)
    BY <1>1, <1>2 DEF Turns
  <1>4. \A i \in 1..2 :
          \/ i = 1 /\ i - 1 = 0
          \/ i = 2 /\ i - 1 = 1
    OBVIOUS
  <1>5. \A i \in 1..2 : Turns(d[i - 1], p[i], d[i], 3)
    BY <1>3, <1>4
  <1>6. Leads(p, 1, 1, 3)
    BY <1>1, <1>2, <1>5 DEF Leads
  <1>7. QED
    BY <1>1, <1>6 DEF p

\* The handler of a single message.
LEMMA WebLeads ==
  ASSUME NEW limit \in Nat, 1 <= limit
  PROVE  /\ <<"open", "channel", "query", "close">> \in Seq(Operation)
         /\ Leads(<<"open", "channel", "query", "close">>, 0, 0, limit)
  <1> DEFINE p == <<"open", "channel", "query", "close">>
             d == [i \in 0..4 |-> IF i \in {1, 2, 3} THEN 1 ELSE 0]
  <1>1. /\ p \in Seq(Operation) /\ Len(p) = 4
        /\ p[1] = "open" /\ p[2] = "channel" /\ p[3] = "query" /\ p[4] = "close"
    BY DEF Operation
  <1>2. /\ d \in [0..4 -> 0..limit]
        /\ d[0] = 0 /\ d[1] = 1 /\ d[2] = 1 /\ d[3] = 1
        /\ d[4] = 0
    OBVIOUS
  <1> HIDE DEF p, d
  <1>3. /\ Turns(d[0], p[1], d[1], limit) /\ Turns(d[1], p[2], d[2], limit)
        /\ Turns(d[2], p[3], d[3], limit) /\ Turns(d[3], p[4], d[4], limit)
    BY <1>1, <1>2 DEF Turns
  <1>4. \A i \in 1..4 :
          \/ i = 1 /\ i - 1 = 0
          \/ i = 2 /\ i - 1 = 1
          \/ i = 3 /\ i - 1 = 2
          \/ i = 4 /\ i - 1 = 3
    OBVIOUS
  <1>5. \A i \in 1..4 : Turns(d[i - 1], p[i], d[i], limit)
    BY <1>3, <1>4
  <1>6. Leads(p, 0, 0, limit)
    BY <1>1, <1>2, <1>5 DEF Leads
  <1>7. QED
    BY <1>1, <1>6 DEF p

\* The three sessions of BanUser, one after the other.
LEMMA BanLeads ==
  ASSUME NEW limit \in Nat, 1 <= limit
  PROVE  /\ Session \in Seq(Operation)
         /\ Leads(Session, 0, 0, limit)
         /\ Session \o Session \o Session \in Seq(Operation)
         /\ Leads(Session \o Session \o Session, 0, 0, limit)
  <1>1. 0 \in Nat /\ 0 + 1 <= limit
    OBVIOUS
  <1>2. Session \in Seq(Operation) /\ Leads(Session, 0, 0, limit)
    BY <1>1, ScopeLeads DEF Session
  <1>3. /\ Session \o Session \in Seq(Operation)
        /\ Leads(Session \o Session, 0, 0, limit)
    BY <1>2, LeadsConcat
  <1>4. QED
    BY <1>2, <1>3, LeadsConcat

\* The interceptor gives back what it takes, at most two.
LEMMA CheckLeads ==
  ASSUME NEW limit \in Nat, NEW n \in Nat, n + 2 <= limit,
         NEW open \in {"check", "open"}, NEW query \in {"vet", "query"},
         NEW check \in UserCheck(open, query)
  PROVE  check \in Seq(Operation) /\ Leads(check, n, n, limit)
  <1>1. CASE check = <<>>
    <2>1. n \in 0..limit /\ <<>> \in Seq(Operation)
      OBVIOUS
    <2>2. QED
      BY <1>1, <2>1, LeadsEmpty
  <1>2. CASE check = <<open, query, "close">>
    <2>1. n + 1 <= limit
      OBVIOUS
    <2>2. QED
      BY <1>2, <2>1, ScopeLeads
  <1>3. CASE check = <<open, query, open, query, "close", query, "close">>
    BY <1>3, NestLeads
  <1>4. QED
    BY <1>1, <1>2, <1>3 DEF UserCheck

\* What the handlers do begins and ends without a session.
LEMMA HandlingLeads ==
  ASSUME NEW c \in Call
  PROVE  Handling(c) \in Seq(Operation) /\ Leads(Handling(c), 0, 0, Limit(c))
  <1>1. Limit(c) \in Nat /\ 1 <= Limit(c)
    BY DEF Limit
  <1>2. CASE c \in Listener
    <2>1. Handling(c) = <<"open", "channel", "listen">>
      BY <1>2, SessionsAssumption DEF Handling
    <2>2. QED
      BY <1>1, <2>1, ListenLeads
  <1>3. CASE c \in Stream
    <2>1. Handling(c) = <<"open", "query", "read", "close">> /\ Limit(c) = 3
      BY <1>3, SessionsAssumption DEF Handling, Limit
    <2>2. QED
      BY <2>1, ReadLeads
  <1>4. CASE c \in Web
    <2>1. Handling(c) = <<"open", "channel", "query", "close">>
      BY <1>4, SessionsAssumption DEF Handling
    <2>2. QED
      BY <1>1, <2>1, WebLeads
  <1>5. CASE c \in Banning
    <2>1. Handling(c) = Session \o Session \o Session
      BY <1>5, SessionsAssumption DEF Handling
    <2>2. QED
      BY <1>1, <2>1, BanLeads
  <1>6. CASE c \in Other
    <2>1. Handling(c) = Session
      BY <1>6, SessionsAssumption DEF Handling
    <2>2. QED
      BY <1>1, <2>1, BanLeads
  <1>7. QED
    BY <1>2, <1>3, <1>4, <1>5, <1>6 DEF Call

\* Whatever a client asks for gives back what it takes.
LEMMA PlansLead ==
  ASSUME NEW c \in Call, NEW p \in Plans(c)
  PROVE  p \in Seq(Operation) /\ Leads(p, 0, 0, Limit(c))
  <1>1. /\ Limit(c) \in Nat /\ 0 \in Nat /\ 0 \in 0..Limit(c)
        /\ 0 + 1 <= Limit(c) /\ 0 + 2 <= Limit(c)
    BY DEF Limit
  <1>2. PICK check \in UserCheck("check", "vet") \cup {<<>>} :
          p = <<"check", "vet", "close">> \o check \o Handling(c)
    BY DEF Plans
  <1>3. check \in Seq(Operation) /\ Leads(check, 0, 0, Limit(c))
    <2>1. CASE check \in UserCheck("check", "vet")
      BY <1>1, <2>1, CheckLeads
    <2>2. CASE check = <<>>
      <3>1. <<>> \in Seq(Operation)
        OBVIOUS
      <3>2. QED
        BY <1>1, <2>2, <3>1, LeadsEmpty
    <2>3. QED
      BY <2>1, <2>2
  <1>4. /\ <<"check", "vet", "close">> \in Seq(Operation)
        /\ Leads(<<"check", "vet", "close">>, 0, 0, Limit(c))
    BY <1>1, ScopeLeads
  <1>5. /\ <<"check", "vet", "close">> \o check \in Seq(Operation)
        /\ Leads(<<"check", "vet", "close">> \o check, 0, 0, Limit(c))
    BY <1>1, <1>3, <1>4, LeadsConcat
  <1>6. QED
    BY <1>1, <1>2, <1>5, HandlingLeads, LeadsConcat

-----------------------------------------------------------------------------
(* Counting sessions *)

\* The open sessions of finitely many calls are finitely many.
LEMMA SessionSet ==
  ASSUME NEW f \in [Call -> 0..3]
  PROVE  /\ \A c \in Call, n \in 1..3 : <<c, n>> \in OpenSessions(f) <=> n <= f[c]
         /\ OpenSessions(f) \subseteq Call \X (1..3)
         /\ IsFiniteSet(OpenSessions(f))
         /\ Total(f) \in Nat
  <1>1. \A s : s \in OpenSessions(f) <=>
          \E c \in Call : \E n \in 1..f[c] : s = <<c, n>>
    BY DEF OpenSessions
  <1>2. \A c \in Call : f[c] \in 0..3
    OBVIOUS
  <1>3. \A c \in Call, n \in 1..3 : <<c, n>> \in OpenSessions(f) <=> n <= f[c]
    <2>1. ASSUME NEW c \in Call, NEW n \in 1..3
          PROVE  n \in 1..f[c] <=> n <= f[c]
      BY <1>2
    <2>2. QED
      BY <1>1, <2>1
  <1>4. OpenSessions(f) \subseteq Call \X (1..3)
    <2>1. \A c \in Call : 1..f[c] \subseteq 1..3
      BY <1>2
    <2>2. QED
      BY <1>1, <2>1
  <1>5. IsFiniteSet(OpenSessions(f))
    <2>1. IsFiniteSet(1..3)
      <3>1. 1 \in Int /\ 3 \in Int
        OBVIOUS
      <3>2. QED
        BY <3>1, FS_Interval
    <2>2. IsFiniteSet(Call \X (1..3))
      BY <2>1, FS_Product, SessionsAssumption
    <2>3. QED
      BY <1>4, <2>2, FS_Subset
  <1>6. Total(f) \in Nat
    BY <1>5, FS_CardinalityType DEF Total
  <1>7. QED
    BY <1>3, <1>4, <1>5, <1>6

\* Calls without sessions have none together.
LEMMA TotalOfNone ==
  ASSUME NEW f \in [Call -> 0..3], \A c \in Call : f[c] = 0
  PROVE  Total(f) = 0
  <1>1. OpenSessions(f) = {}
    <2>1. 1..0 = {}
      OBVIOUS
    <2>2. QED
      BY <2>1 DEF OpenSessions
  <1>2. QED
    BY <1>1, FS_EmptySet DEF Total

\* One session more makes a total of one more.
LEMMA OneMore ==
  ASSUME NEW f \in [Call -> 0..3], NEW g \in [Call -> 0..3], NEW c \in Call,
         g[c] = f[c] + 1, \A x \in Call \ {c} : g[x] = f[x]
  PROVE  Total(g) = Total(f) + 1
  <1>1. g[c] \in 1..3 /\ f[c] \in 0..3
    <2>1. g[c] \in 0..3 /\ f[c] \in 0..3
      OBVIOUS
    <2>2. QED
      BY <2>1
  <1>2. <<c, g[c]>> \notin OpenSessions(f)
    <2>1. ~(g[c] <= f[c])
      BY <1>1
    <2>2. QED
      BY <1>1, <2>1, SessionSet
  <1>3. OpenSessions(g) = OpenSessions(f) \cup {<<c, g[c]>>}
    <2>1. ASSUME NEW x \in Call, NEW n \in 1..3
          PROVE  n <= g[x] <=> n <= f[x] \/ (x = c /\ n = g[c])
      <3>1. CASE x = c
        BY <1>1, <3>1
      <3>2. CASE x # c
        BY <3>2
      <3>3. QED
        BY <3>1, <3>2
    <2>2. ASSUME NEW x \in Call, NEW n \in 1..3
          PROVE  <<x, n>> \in OpenSessions(g) <=>
                   <<x, n>> \in OpenSessions(f) \cup {<<c, g[c]>>}
      BY <2>1, SessionSet
    <2>3. /\ OpenSessions(g) \subseteq Call \X (1..3)
          /\ OpenSessions(f) \cup {<<c, g[c]>>} \subseteq Call \X (1..3)
      BY <1>1, SessionSet
    <2>4. ASSUME NEW s \in Call \X (1..3)
          PROVE  s \in OpenSessions(g) <=>
                   s \in OpenSessions(f) \cup {<<c, g[c]>>}
      <3>1. PICK x \in Call, n \in 1..3 : s = <<x, n>>
        OBVIOUS
      <3>2. QED
        BY <2>2, <3>1
    <2>5. QED
      BY <2>3, <2>4
  <1>4. Cardinality(OpenSessions(f) \cup {<<c, g[c]>>}) =
          Cardinality(OpenSessions(f)) + 1
    BY <1>2, SessionSet, FS_AddElement
  <1>5. QED
    BY <1>3, <1>4 DEF Total

\* A call that ends takes all of its sessions along.
LEMMA AllGone ==
  ASSUME NEW f \in [Call -> 0..3], NEW g \in [Call -> 0..3], NEW c \in Call,
         g[c] = 0, \A x \in Call \ {c} : g[x] = f[x]
  PROVE  Total(f) = Total(g) + f[c]
  <1> DEFINE h(n) == [f EXCEPT ![c] = n]
  <1>1. \A n \in 0..3 : /\ h(n) \in [Call -> 0..3]
                        /\ h(n)[c] = n
                        /\ \A x \in Call \ {c} : h(n)[x] = f[x]
    OBVIOUS
  <1>2. h(0) = g /\ h(f[c]) = f
    OBVIOUS
  <1> HIDE DEF h
  <1>3. /\ 0 \in 0..3 /\ 1 \in 0..3 /\ 2 \in 0..3 /\ 3 \in 0..3
        /\ 1 = 0 + 1 /\ 2 = 1 + 1 /\ 3 = 2 + 1
    OBVIOUS
  <1>4. Total(h(1)) = Total(h(0)) + 1
    BY <1>1, <1>3, OneMore
  <1>5. Total(h(2)) = Total(h(1)) + 1
    BY <1>1, <1>3, OneMore
  <1>6. Total(h(3)) = Total(h(2)) + 1
    BY <1>1, <1>3, OneMore
  <1>7. Total(h(0)) \in Nat
    BY <1>1, <1>3, SessionSet
  <1>8. f[c] = 0 \/ f[c] = 1 \/ f[c] = 2 \/ f[c] = 3
    <2>1. f[c] \in 0..3
      OBVIOUS
    <2>2. QED
      BY <2>1
  <1>9. QED
    BY <1>2, <1>4, <1>5, <1>6, <1>7, <1>8

-----------------------------------------------------------------------------
(* Steps *)

\* The invariant in the next state, put together.
LEMMA Together ==
  ASSUME up' \in BOOLEAN,
         connections' \in 0..MaxConnections,
         lingering' \in Nat,
         plan' = [c \in Call |-> plan'[c]],
         held' \in [Call -> 0..3],
         status' \in [Call -> StatusCode],
         connections' = lingering' + Total(held'),
         \A c \in Call : /\ plan'[c] \in Seq(Operation)
                         /\ Leads(plan'[c], held'[c], 0, Limit(c))
  PROVE  IInv'
  <1>1. \A c \in Call : PlanOK(c)'
    BY DEF PlanOK, Leads, Limit, Turns, Operation
  <1>2. (connections = lingering + Total(held))'
    BY DEF Total, OpenSessions
  <1>3. QED
    BY <1>1, <1>2 DEF IInv

\* The invariant, with the types its parts imply.
LEMMA Known ==
  ASSUME IInv
  PROVE  /\ up \in BOOLEAN
         /\ connections \in Nat
         /\ connections <= MaxConnections
         /\ MaxConnections \in Nat
         /\ lingering \in Nat
         /\ plan = [c \in Call |-> plan[c]]
         /\ held \in [Call -> 0..3]
         /\ Total(held) \in Nat
         /\ status \in [Call -> StatusCode]
         /\ connections = lingering + Total(held)
         /\ \A c \in Call : /\ plan[c] \in Seq(Operation)
                            /\ Leads(plan[c], held[c], 0, Limit(c))
                            /\ Limit(c) \in 2..3
                            /\ Limit(c) \in Nat
  <1>1. connections \in Nat /\ connections <= MaxConnections /\ MaxConnections \in Nat
    BY SessionsAssumption DEF IInv
  <1>2. Total(held) \in Nat
    BY SessionSet DEF IInv
  <1>3. QED
    BY <1>1, <1>2 DEF IInv, PlanOK, Limit, StatusCode

\* An empty plan holds nothing.
LEMMA NothingHeld ==
  ASSUME IInv, NEW c \in Call, ~Running(c)
  PROVE  held[c] = 0
  BY Known, LeadsEmpty DEF Running

\* Only the empty sequence has length 0.
LEMMA ZeroLength ==
  ASSUME NEW S, NEW q \in Seq(S), Len(q) = 0
  PROVE  q = <<>>
  OBVIOUS

\* What the next operation of a call makes of its sessions.
LEMMA NextOp ==
  ASSUME IInv, NEW c \in Call, Running(c)
  PROVE  \E n \in 0..Limit(c) :
           /\ Turns(held[c], Head(plan[c]), n, Limit(c))
           /\ Tail(plan[c]) \in Seq(Operation)
           /\ Leads(Tail(plan[c]), n, 0, Limit(c))
           /\ Len(plan[c]) = 1 => n = 0
  <1>1. /\ plan[c] \in Seq(Operation) /\ plan[c] # <<>>
        /\ Limit(c) \in Nat
        /\ Leads(plan[c], held[c], 0, Limit(c))
    BY Known DEF Running
  <1>2. PICK n \in 0..Limit(c) : /\ Turns(held[c], Head(plan[c]), n, Limit(c))
                                 /\ Leads(Tail(plan[c]), n, 0, Limit(c))
    BY <1>1, LeadsTail
  <1>3. Tail(plan[c]) \in Seq(Operation) /\ Len(Tail(plan[c])) = Len(plan[c]) - 1
    BY <1>1, HeadTailProperties
  <1>4. ASSUME Len(plan[c]) = 1 PROVE n = 0
    <2>1. Len(Tail(plan[c])) = 0
      BY <1>3, <1>4
    <2>2. Tail(plan[c]) = <<>>
      BY <1>3, <2>1, ZeroLength
    <2>3. Leads(<<>>, n, 0, Limit(c))
      BY <1>2, <2>2
    <2>4. QED
      BY <1>1, <2>3, LeadsEmpty
  <1>5. QED
    BY <1>2, <1>3, <1>4

\* A call that advances and is left with n sessions.
LEMMA Advanced ==
  ASSUME IInv, NEW c \in Call, Advance(c), NEW n \in Nat,
         Tail(plan[c]) \in Seq(Operation), Leads(Tail(plan[c]), n, 0, Limit(c)),
         held'[c] = n, \A x \in Call \ {c} : held'[x] = held[x]
  PROVE  /\ plan' = [x \in Call |-> plan'[x]]
         /\ status' \in [Call -> StatusCode]
         /\ \A x \in Call : /\ plan'[x] \in Seq(Operation)
                            /\ Leads(plan'[x], held'[x], 0, Limit(x))
  <1>1. /\ plan' = [x \in Call |-> plan'[x]]
        /\ plan'[c] = Tail(plan[c])
        /\ \A x \in Call \ {c} : plan'[x] = plan[x]
    BY Known DEF Advance
  <1>2. status' \in [Call -> StatusCode]
    BY Known DEF Advance, StatusCode
  <1>3. ASSUME NEW x \in Call
        PROVE  plan'[x] \in Seq(Operation) /\ Leads(plan'[x], held'[x], 0, Limit(x))
    <2>1. CASE x = c
      BY <1>1, <2>1
    <2>2. CASE x # c
      BY <1>1, <2>2, Known
    <2>3. QED
      BY <2>1, <2>2
  <1>4. QED
    BY <1>1, <1>2, <1>3

\* An operation leaves a call with at most three sessions.
LEMMA HeldBound ==
  ASSUME NEW c \in Call, NEW n \in 0..Limit(c)
  PROVE  n \in 0..3 /\ n \in Nat
  BY DEF Limit

\* getSociSession (DBInterface.cpp:25-27): one connection more, to one call.
LEMMA OpenStep ==
  ASSUME IInv, NEW c \in Call, Open(c)
  PROVE  /\ IInv'
         /\ Len(plan[c]) # 1
  <1>1. PICK n \in 0..Limit(c) :
          /\ Turns(held[c], Head(plan[c]), n, Limit(c))
          /\ Tail(plan[c]) \in Seq(Operation)
          /\ Leads(Tail(plan[c]), n, 0, Limit(c))
          /\ Len(plan[c]) = 1 => n = 0
    BY NextOp DEF Open, At
  <1>2. n = held[c] + 1 /\ n \in 0..3 /\ n \in Nat
    BY <1>1, HeldBound DEF Open, At, Turns
  <1>3. held[c] \in Nat
    <2>1. held \in [Call -> 0..3]
      BY Known
    <2>2. QED
      BY <2>1
  <1>4. held' = [held EXCEPT ![c] = n]
    BY <1>2 DEF Open
  <1>5. /\ held' \in [Call -> 0..3]
        /\ held'[c] = n
        /\ \A x \in Call \ {c} : held'[x] = held[x]
    <2>1. held \in [Call -> 0..3]
      BY Known
    <2>2. n \in 0..3
      BY <1>2
    <2>3. QED
      BY <1>4, <2>1, <2>2
  <1>6. Total(held') = Total(held) + 1
    BY <1>2, <1>5, Known, OneMore
  <1>7. /\ connections' = connections + 1
        /\ connections < MaxConnections
        /\ UNCHANGED <<up, lingering>>
        /\ Advance(c)
    BY DEF Open
  <1>8. connections' \in 0..MaxConnections /\ connections' = lingering + Total(held')
    BY <1>6, <1>7, Known
  <1>9. IInv'
    BY <1>1, <1>2, <1>5, <1>7, <1>8, Known, Advanced, Together
  <1>10. n # 0
    BY <1>2, <1>3
  <1>11. QED
    BY <1>1, <1>9, <1>10

\* The end of a session's scope: one connection less.
LEMMA CloseStep ==
  ASSUME IInv, NEW c \in Call, Close(c)
  PROVE  /\ IInv'
         /\ held[c] >= 1
  <1>1. PICK n \in 0..Limit(c) :
          /\ Turns(held[c], Head(plan[c]), n, Limit(c))
          /\ Tail(plan[c]) \in Seq(Operation)
          /\ Leads(Tail(plan[c]), n, 0, Limit(c))
    BY NextOp DEF Close, At
  <1>2. held[c] = n + 1 /\ n \in 0..3 /\ n \in Nat
    BY <1>1, HeldBound DEF Close, At, Turns
  <1>3. held' = [held EXCEPT ![c] = n]
    BY <1>2 DEF Close
  <1>4. /\ held' \in [Call -> 0..3]
        /\ held'[c] = n
        /\ \A x \in Call \ {c} : held[x] = held'[x]
    BY <1>2, <1>3, Known
  <1>5. Total(held) = Total(held') + 1
    BY <1>2, <1>4, Known, OneMore
  <1>6. /\ connections' = connections - 1
        /\ UNCHANGED <<up, lingering>>
        /\ Advance(c)
    BY DEF Close
  <1>7. Total(held') \in Nat
    BY <1>4, SessionSet
  <1>8. connections' \in 0..MaxConnections /\ connections' = lingering + Total(held')
    BY <1>5, <1>6, <1>7, Known
  <1>9. IInv'
    BY <1>1, <1>2, <1>4, <1>6, <1>8, Known, Advanced, Together
  <1>10. QED
    BY <1>2, <1>9

\* A call without a plan has nothing to close.
LEMMA NoPlan ==
  ASSUME NEW c \in Call
  PROVE  <<>> \in Seq(Operation) /\ Leads(<<>>, 0, 0, Limit(c))
  <1>1. Limit(c) \in Nat /\ 0 \in 0..Limit(c)
    BY DEF Limit
  <1>2. <<>> \in Seq(Operation)
    OBVIOUS
  <1>3. QED
    BY <1>1, <1>2, LeadsEmpty

\* The statements of a scope leave its session open.
LEMMA QueryStep ==
  ASSUME IInv, NEW c \in Call, Query(c)
  PROVE  /\ IInv'
         /\ Len(plan[c]) # 1
  <1>1. PICK n \in 0..Limit(c) :
          /\ Turns(held[c], Head(plan[c]), n, Limit(c))
          /\ Tail(plan[c]) \in Seq(Operation)
          /\ Leads(Tail(plan[c]), n, 0, Limit(c))
          /\ Len(plan[c]) = 1 => n = 0
    BY NextOp DEF Query, At
  <1>2. held[c] = n /\ n # 0 /\ n \in Nat
    BY <1>1, HeldBound DEF Query, At, Turns
  <1>3. /\ Advance(c)
        /\ UNCHANGED <<up, connections, lingering, held>>
    BY DEF Query
  <1>4. /\ plan' = [x \in Call |-> plan'[x]]
        /\ status' \in [Call -> StatusCode]
        /\ \A x \in Call : /\ plan'[x] \in Seq(Operation)
                           /\ Leads(plan'[x], held'[x], 0, Limit(x))
    BY <1>1, <1>2, <1>3, Advanced
  <1>5. connections \in 0..MaxConnections
    BY Known
  <1>6. IInv'
    BY <1>3, <1>4, <1>5, Known, Together
  <1>7. QED
    BY <1>1, <1>2, <1>6

\* A call that ends early closes the sessions it has.
LEMMA LeaveStep ==
  ASSUME IInv, NEW c \in Call, NEW st \in StatusCode, Leave(c, st)
  PROVE  IInv'
  <1>1. /\ held' \in [Call -> 0..3]
        /\ held'[c] = 0
        /\ \A x \in Call \ {c} : held'[x] = held[x]
    BY Known DEF Leave
  <1>2. /\ plan' = [x \in Call |-> plan'[x]]
        /\ plan'[c] = <<>>
        /\ \A x \in Call \ {c} : plan'[x] = plan[x]
    BY Known DEF Leave
  <1>3. status' \in [Call -> StatusCode]
    BY Known DEF Leave
  <1>4. Total(held) = Total(held') + held[c]
    BY <1>1, Known, AllGone
  <1>5. /\ connections' = connections - held[c]
        /\ UNCHANGED <<up, lingering>>
    BY DEF Leave
  <1>6. Total(held') \in Nat /\ held[c] \in Nat
    <2>1. Total(held') \in Nat
      BY <1>1, SessionSet
    <2>2. held[c] \in 0..3
      BY Known
    <2>3. QED
      BY <2>1, <2>2
  <1>7. connections' \in 0..MaxConnections /\ connections' = lingering + Total(held')
    BY <1>4, <1>5, <1>6, Known
  <1>8. ASSUME NEW x \in Call
        PROVE  plan'[x] \in Seq(Operation) /\ Leads(plan'[x], held'[x], 0, Limit(x))
    <2>1. CASE x = c
      <3>1. plan'[x] = <<>> /\ held'[x] = 0
        BY <1>1, <1>2, <2>1
      <3>2. QED
        BY <3>1, NoPlan
    <2>2. CASE x # c
      BY <1>1, <1>2, <2>2, Known
    <2>3. QED
      BY <2>1, <2>2
  <1>9. QED
    BY <1>1, <1>2, <1>3, <1>5, <1>7, <1>8, Known, Together

\* The places where a call ends early, and how.
EndsEarly(c) == OpenFails(c) \/ QueryFails(c) \/ TurnAway(c)

LEMMA EarlyEnds ==
  ASSUME NEW c \in Call, EndsEarly(c)
  PROVE  /\ At(c, {"open", "query", "channel"})
         /\ \E st \in StatusCode \ {"OK"} : Leave(c, st)
  <1>1. /\ Failure(c) \in StatusCode \ {"OK"}
        /\ "INVALID_ARGUMENT" \in StatusCode \ {"OK"}
        /\ "UNAUTHENTICATED" \in StatusCode \ {"OK"}
    BY DEF Failure, StatusCode
  <1>2. QED
    BY <1>1 DEF EndsEarly, OpenFails, QueryFails, TurnAway, At

\* When the process ends, its connections linger.
LEMMA DieStep ==
  ASSUME IInv, Die
  PROVE  IInv'
  <1>1. /\ held' \in [Call -> 0..3]
        /\ \A x \in Call : held'[x] = 0 /\ plan'[x] = <<>>
        /\ plan' = [x \in Call |-> plan'[x]]
        /\ lingering' = lingering + Total(held)
        /\ connections' = connections
    BY DEF Die
  <1>a. up' \in BOOLEAN
    BY DEF Die
  <1>2. status' \in [Call -> StatusCode]
    BY Known DEF Die, StatusCode
  <1>3. Total(held') = 0
    BY <1>1, TotalOfNone
  <1>4. /\ lingering' \in Nat
        /\ connections' \in 0..MaxConnections
        /\ connections' = lingering' + Total(held')
    BY <1>1, <1>3, Known
  <1>5. ASSUME NEW x \in Call
        PROVE  plan'[x] \in Seq(Operation) /\ Leads(plan'[x], held'[x], 0, Limit(x))
    BY <1>1, NoPlan
  <1>6. QED
    BY <1>a, <1>1, <1>2, <1>4, <1>5, Together

\* A call begins with the interceptor's checks, then its handler.
LEMMA ArriveStep ==
  ASSUME IInv, NEW c \in Call, Arrive(c)
  PROVE  IInv'
  <1>1. PICK p \in Plans(c) : plan' = [plan EXCEPT ![c] = p]
    BY DEF Arrive
  <1>2. /\ plan' = [x \in Call |-> plan'[x]]
        /\ plan'[c] = p
        /\ \A x \in Call \ {c} : plan'[x] = plan[x]
    BY <1>1, Known
  <1>3. UNCHANGED <<up, connections, lingering, held, status>>
    BY DEF Arrive
  <1>4. held[c] = 0
    BY NothingHeld DEF Arrive
  <1>5. ASSUME NEW x \in Call
        PROVE  plan'[x] \in Seq(Operation) /\ Leads(plan'[x], held'[x], 0, Limit(x))
    <2>1. CASE x = c
      BY <1>2, <1>3, <1>4, <2>1, PlansLead
    <2>2. CASE x # c
      BY <1>2, <1>3, <2>2, Known
    <2>3. QED
      BY <2>1, <2>2
  <1>6. connections \in 0..MaxConnections
    BY Known
  <1>7. QED
    BY <1>2, <1>3, <1>5, <1>6, Known, Together

\* Who reads holds one session and may have three.
LEMMA ReaderHolds ==
  ASSUME IInv, NEW c \in Call, At(c, {"read"})
  PROVE  /\ held[c] = 1
         /\ Limit(c) = 3
         /\ Tail(plan[c]) \in Seq(Operation)
         /\ Leads(Tail(plan[c]), 1, 0, Limit(c))
         /\ Len(plan[c]) # 1
  <1>1. PICK n \in 0..Limit(c) :
          /\ Turns(held[c], Head(plan[c]), n, Limit(c))
          /\ Tail(plan[c]) \in Seq(Operation)
          /\ Leads(Tail(plan[c]), n, 0, Limit(c))
          /\ Len(plan[c]) = 1 => n = 0
    BY NextOp DEF At
  <1>2. held[c] = 1 /\ n = 1 /\ Limit(c) = 3
    BY <1>1 DEF At, Turns
  <1>3. QED
    BY <1>1, <1>2

\* A stream that reads no further message goes on to close its session.
LEMMA EndOfStreamStep ==
  ASSUME IInv, NEW c \in Call, EndOfStream(c)
  PROVE  IInv'
  <1>1. /\ Advance(c)
        /\ UNCHANGED <<up, connections, lingering, held>>
    BY DEF EndOfStream
  <1>2. /\ held'[c] = 1 /\ 1 \in Nat
        /\ Tail(plan[c]) \in Seq(Operation)
        /\ Leads(Tail(plan[c]), 1, 0, Limit(c))
    BY <1>1, ReaderHolds DEF EndOfStream
  <1>3. /\ plan' = [x \in Call |-> plan'[x]]
        /\ status' \in [Call -> StatusCode]
        /\ \A x \in Call : /\ plan'[x] \in Seq(Operation)
                           /\ Leads(plan'[x], held'[x], 0, Limit(x))
    BY <1>1, <1>2, Advanced
  <1>4. connections \in 0..MaxConnections
    BY Known
  <1>5. QED
    BY <1>1, <1>3, <1>4, Known, Together

\* What a stream does with a message comes before what it had to do.
LEMMA NextMessageStep ==
  ASSUME IInv, NEW c \in Call, NextMessage(c)
  PROVE  IInv'
  <1>1. PICK check \in UserCheck("open", "query") :
          plan' = [plan EXCEPT ![c] = check \o <<"channel", "query">> \o plan[c]]
    BY DEF NextMessage
  <1> DEFINE first == check \o <<"channel", "query">>
  <1>2. /\ plan' = [x \in Call |-> plan'[x]]
        /\ plan'[c] = first \o plan[c]
        /\ \A x \in Call \ {c} : plan'[x] = plan[x]
    BY <1>1, Known
  <1>3. UNCHANGED <<up, connections, lingering, held, status>>
    BY DEF NextMessage
  <1>4. held[c] = 1 /\ Limit(c) = 3
    BY ReaderHolds DEF NextMessage
  <1>5. check \in Seq(Operation) /\ Leads(check, 1, 1, 3)
    <2>1. 1 \in Nat /\ 3 \in Nat /\ 1 + 2 <= 3
      OBVIOUS
    <2>2. QED
      BY <2>1, CheckLeads
  <1>6. first \in Seq(Operation) /\ Leads(first, 1, 1, 3)
    BY <1>5, StoreLeads, LeadsConcat
  <1>7. plan'[c] \in Seq(Operation) /\ Leads(plan'[c], 1, 0, 3)
    <2> HIDE DEF first
    <2>1. plan[c] \in Seq(Operation) /\ Leads(plan[c], 1, 0, 3)
      BY <1>4, Known
    <2>2. 3 \in Nat
      OBVIOUS
    <2>3. first \o plan[c] \in Seq(Operation) /\ Leads(first \o plan[c], 1, 0, 3)
      BY <1>6, <2>1, <2>2, LeadsConcat, Zenon
    <2>4. QED
      BY <1>2, <2>3
  <1>8. ASSUME NEW x \in Call
        PROVE  plan'[x] \in Seq(Operation) /\ Leads(plan'[x], held'[x], 0, Limit(x))
    <2>1. CASE x = c
      BY <1>3, <1>4, <1>7, <2>1
    <2>2. CASE x # c
      BY <1>2, <1>3, <2>2, Known
    <2>3. QED
      BY <2>1, <2>2
  <1>9. connections \in 0..MaxConnections
    BY Known
  <1>10. QED
    BY <1>2, <1>3, <1>8, <1>9, Known, Together

\* The database gives up a connection of a process that is gone.
LEMMA ReapStep ==
  ASSUME IInv, Reap
  PROVE  IInv'
  <1>1. /\ lingering > 0
        /\ lingering' = lingering - 1
        /\ connections' = connections - 1
        /\ UNCHANGED <<up, plan, held, status>>
    BY DEF Reap
  <1>2. /\ lingering' \in Nat
        /\ connections' \in 0..MaxConnections
        /\ connections' = lingering' + Total(held')
    BY <1>1, Known
  <1>3. QED
    BY <1>1, <1>2, Known, Together

\* A new process holds no session.
LEMMA RestartStep ==
  ASSUME IInv, Restart
  PROVE  IInv'
  <1>1. up' \in BOOLEAN /\ UNCHANGED <<connections, lingering, plan, held, status>>
    BY DEF Restart
  <1>2. connections' \in 0..MaxConnections
    BY <1>1, Known
  <1>3. QED
    BY <1>1, <1>2, Known, Together

\* At first nothing is open and nothing planned.
LEMMA InitIInv == Init => IInv
  <1> SUFFICES ASSUME Init PROVE IInv
    OBVIOUS
  <1>1. /\ held \in [Call -> 0..3]
        /\ \A c \in Call : held[c] = 0 /\ plan[c] = <<>>
        /\ plan = [c \in Call |-> plan[c]]
        /\ status \in [Call -> StatusCode]
        /\ up \in BOOLEAN /\ connections = 0 /\ lingering = 0
    BY DEF Init, StatusCode
  <1>2. Total(held) = 0
    BY <1>1, TotalOfNone
  <1>3. /\ connections \in 0..MaxConnections
        /\ lingering \in Nat
        /\ connections = lingering + Total(held)
    BY <1>1, <1>2, SessionsAssumption
  <1>4. ASSUME NEW c \in Call PROVE PlanOK(c)
    <2>1. <<>> \in Seq(Operation) /\ 0 \in 0..Limit(c) /\ Limit(c) \in Nat
      BY DEF Limit
    <2>2. QED
      BY <1>1, <2>1, LeadsEmpty DEF PlanOK
  <1>5. QED
    BY <1>1, <1>3, <1>4 DEF IInv

\* Every step keeps the invariant.
LEMMA StepIInv == IInv /\ [Next]_vars => IInv'
  <1> SUFFICES ASSUME IInv, [Next]_vars PROVE IInv'
    OBVIOUS
  <1>1. ASSUME NEW c \in Call, CallStep(c) PROVE IInv'
    BY <1>1, OpenStep, QueryStep, CloseStep, DieStep, EarlyEnds, LeaveStep
    DEF CallStep, CheckFails, EndsEarly
  <1>2. ASSUME NEW c \in Call, ClientStep(c) PROVE IInv'
    BY <1>2, ArriveStep, NextMessageStep, EndOfStreamStep DEF ClientStep
  <1>3. CASE Stop
    BY <1>3, DieStep DEF Stop
  <1>4. CASE UNCHANGED vars
    <2>1. UNCHANGED <<up, connections, lingering, plan, held, status>>
      BY <1>4 DEF vars
    <2>2. connections \in 0..MaxConnections
      BY Known
    <2>3. QED
      BY <2>1, <2>2, Known, Together
  <1>5. QED
    BY <1>1, <1>2, <1>3, <1>4, ReapStep, RestartStep DEF Next

\* The inductive invariant holds in every reachable state.
LEMMA Invariance == Spec => []IInv
  BY InitIInv, StepIInv, PTL DEF Spec

-----------------------------------------------------------------------------
(* Listeners *)

\* What ListenersKeepAll says of a step.
Keeping ==
  up' =>
    /\ Listening \subseteq Listening'
    /\ Cardinality(Listening) + lingering = MaxConnections =>
         \A c \in Call : status'[c] = "OK" => status[c] = "OK"

\* A listener holds a session.
LEMMA ListenerHolds ==
  ASSUME IInv, NEW l \in Listening
  PROVE  l \in Call /\ <<l, 1>> \in OpenSessions(held)
  <1>1. l \in Call /\ At(l, {"listen"})
    BY DEF Listening, Call
  <1>2. PICK n \in 0..Limit(l) : Turns(held[l], "listen", n, Limit(l))
    BY <1>1, NextOp DEF At
  <1>3. held[l] = n + 1 /\ n \in Nat
    BY <1>1, <1>2, HeldBound DEF Turns
  <1>4. 1 <= held[l] /\ 1 \in 1..3
    BY <1>3
  <1>5. QED
    BY <1>1, <1>4, Known, SessionSet

\* While listeners and dead processes have all connections, every session is
\* a listener's.
LEMMA AllListen ==
  ASSUME IInv, Cardinality(Listening) + lingering = MaxConnections,
         NEW c \in Call, held[c] >= 1
  PROVE  c \in Listening
  <1> DEFINE T == Listening \X {1}
  <1>1. IsFiniteSet(Listening)
    <2>1. Listening \subseteq Call
      BY DEF Listening, Call
    <2>2. QED
      BY <2>1, FS_Subset, SessionsAssumption
  <1>2. Cardinality(T) = Cardinality(Listening) * 1 /\ Cardinality(Listening) \in Nat
    <2>1. IsFiniteSet({1}) /\ Cardinality({1}) = 1
      BY FS_Singleton
    <2>2. QED
      BY <1>1, <2>1, FS_Product, FS_CardinalityType
  <1>3. T \subseteq OpenSessions(held)
    BY ListenerHolds
  <1>4. IsFiniteSet(OpenSessions(held))
    BY Known, SessionSet
  <1>5. Cardinality(T) <= Cardinality(OpenSessions(held))
    BY <1>3, <1>4, FS_Subset
  <1>6. /\ connections = lingering + Cardinality(OpenSessions(held))
        /\ Cardinality(OpenSessions(held)) \in Nat
    BY Known DEF Total
  <1>7. Cardinality(OpenSessions(held)) = Cardinality(T)
    <2> HIDE DEF T
    <2>1. QED
      BY <1>2, <1>5, <1>6, Known
  <1>8. OpenSessions(held) = T
    BY <1>3, <1>4, <1>7, FS_Subset
  <1>9. <<c, 1>> \in OpenSessions(held)
    <2>1. 1 <= held[c] /\ 1 \in 1..3
      BY Known
    <2>2. QED
      BY <2>1, Known, SessionSet
  <1>10. QED
    BY <1>8, <1>9

\* A step in which no listener moves and no call ends well but by closing its
\* session.
LEMMA KeepingStep ==
  ASSUME IInv,
         \A l \in Listening : plan'[l] = plan[l],
         \A c \in Call : status'[c] = "OK" => status[c] = "OK" \/ Close(c)
  PROVE  Keeping
  <1>1. Listening \subseteq Listening'
    BY DEF Listening, At, Running
  <1>2. ASSUME Cardinality(Listening) + lingering = MaxConnections,
               NEW c \in Call, status'[c] = "OK"
        PROVE  status[c] = "OK"
    <2>1. CASE Close(c)
      <3>1. c \in Listening
        BY <1>2, <2>1, CloseStep, AllListen
      <3>2. Head(plan[c]) = "listen" /\ Head(plan[c]) = "close"
        BY <2>1, <3>1 DEF Listening, Close, At
      <3>3. QED
        BY <3>2
    <2>2. QED
      BY <1>2, <2>1
  <1>3. QED
    BY <1>1, <1>2 DEF Keeping

\* No step takes a waiting listener's session from it while the process
\* lives.
LEMMA StepKeeping ==
  ASSUME IInv, [Next]_vars
  PROVE  [Keeping]_vars
  <1>0. \A l \in Listening : At(l, {"listen"}) /\ Running(l) /\ l \in Call
    BY DEF Listening, At, Call
  <1>1. ASSUME NEW c \in Call, Open(c) PROVE Keeping
    <2>1. /\ plan' = [plan EXCEPT ![c] = Tail(plan[c])]
          /\ Head(plan[c]) # "listen"
      BY <1>1 DEF Open, Advance, At
    <2>2. c \notin Listening
      BY <1>0, <2>1 DEF At
    <2>3. \A l \in Listening : plan'[l] = plan[l]
      BY <1>0, <2>1, <2>2, Known
    <2>4. status' = status
      BY <1>1, OpenStep, Known DEF Open, Advance
    <2>5. QED
      BY <2>3, <2>4, KeepingStep
  <1>2. ASSUME NEW c \in Call, Close(c) PROVE Keeping
    <2>1. /\ plan' = [plan EXCEPT ![c] = Tail(plan[c])]
          /\ Head(plan[c]) # "listen"
      BY <1>2 DEF Close, Advance, At
    <2>2. c \notin Listening
      BY <1>0, <2>1 DEF At
    <2>3. \A l \in Listening : plan'[l] = plan[l]
      BY <1>0, <2>1, <2>2, Known
    <2>4. \A x \in Call \ {c} : status'[x] = status[x]
      BY <1>2, Known DEF Close, Advance
    <2>5. QED
      BY <1>2, <2>3, <2>4, KeepingStep
  <1>3. ASSUME NEW c \in Call, EndsEarly(c) PROVE Keeping
    <2>1. PICK st \in StatusCode \ {"OK"} : Leave(c, st)
      BY <1>3, EarlyEnds
    <2>2. /\ plan' = [plan EXCEPT ![c] = <<>>]
          /\ Head(plan[c]) # "listen"
      BY <1>3, <2>1, EarlyEnds DEF Leave, At
    <2>3. c \notin Listening
      BY <1>0, <2>2 DEF At
    <2>4. \A l \in Listening : plan'[l] = plan[l]
      BY <1>0, <2>2, <2>3, Known
    <2>5. \A x \in Call : status'[x] = "OK" => status[x] = "OK"
      BY <2>1, Known DEF Leave
    <2>6. QED
      BY <2>4, <2>5, KeepingStep
  <1>3a. ASSUME NEW c \in Call, Query(c) PROVE Keeping
    <2>1. /\ plan' = [plan EXCEPT ![c] = Tail(plan[c])]
          /\ Head(plan[c]) # "listen"
      BY <1>3a DEF Query, Advance, At
    <2>2. c \notin Listening
      BY <1>0, <2>1 DEF At
    <2>3. \A l \in Listening : plan'[l] = plan[l]
      BY <1>0, <2>1, <2>2, Known
    <2>4. status' = status
      BY <1>3a, QueryStep, Known DEF Query, Advance
    <2>5. QED
      BY <2>3, <2>4, KeepingStep
  <1>4. ASSUME NEW c \in Call, Arrive(c) PROVE Keeping
    <2>1. PICK p : plan' = [plan EXCEPT ![c] = p]
      BY <1>4 DEF Arrive
    <2>2. c \notin Listening
      BY <1>0, <1>4 DEF Arrive
    <2>3. \A l \in Listening : plan'[l] = plan[l]
      BY <1>0, <2>1, <2>2, Known
    <2>4. status' = status
      BY <1>4 DEF Arrive
    <2>5. QED
      BY <2>3, <2>4, KeepingStep
  <1>5. ASSUME NEW c \in Call, NextMessage(c) PROVE Keeping
    <2>1. PICK p : plan' = [plan EXCEPT ![c] = p \o <<"channel", "query">> \o plan[c]]
      BY <1>5 DEF NextMessage
    <2>2. c \notin Listening
      BY <1>0, <1>5 DEF NextMessage, At
    <2>3. \A l \in Listening : plan'[l] = plan[l]
      BY <1>0, <2>1, <2>2, Known
    <2>4. status' = status
      BY <1>5 DEF NextMessage
    <2>5. QED
      BY <2>3, <2>4, KeepingStep
  <1>6. ASSUME NEW c \in Call, EndOfStream(c) PROVE Keeping
    <2>1. /\ plan' = [plan EXCEPT ![c] = Tail(plan[c])]
          /\ Head(plan[c]) # "listen"
      BY <1>6 DEF EndOfStream, Advance, At
    <2>2. c \notin Listening
      BY <1>0, <2>1 DEF At
    <2>3. \A l \in Listening : plan'[l] = plan[l]
      BY <1>0, <2>1, <2>2, Known
    <2>4. status' = status
      BY <1>6, ReaderHolds, Known DEF EndOfStream, Advance
    <2>5. QED
      BY <2>3, <2>4, KeepingStep
  <1>7. ASSUME Die PROVE Keeping
    BY <1>7 DEF Die, Keeping
  <1>8. ASSUME Reap \/ Restart PROVE Keeping
    <2>1. plan' = plan /\ status' = status
      BY <1>8 DEF Reap, Restart
    <2>2. QED
      BY <2>1, KeepingStep
  <1>9. QED
    BY <1>1, <1>2, <1>3, <1>3a, <1>4, <1>5, <1>6, <1>7, <1>8
    DEF Next, CallStep, ClientStep, CheckFails, Stop, EndsEarly

-----------------------------------------------------------------------------
(* Theorems *)

\* No more connections are open than the database grants, and no call, in
\* whatever order its checks and its handler open and close them, has more
\* than two sessions, three if it is a stream (DBPostgres.cpp:119-150,
\* WrongthinkServiceImpl.cpp:241, 252).
THEOREM TypeCorrect == Spec => []TypeOK
  <1>1. IInv => TypeOK
    <2> SUFFICES ASSUME IInv PROVE TypeOK
      OBVIOUS
    <2>1. plan \in [Call -> Seq(Operation)]
      BY Known
    <2>2. \A c \in Call \ Stream : held[c] <= 2
      <3>1. ASSUME NEW c \in Call \ Stream PROVE held[c] <= 2
        <4>1. held[c] \in 0..Limit(c)
          BY Known, LeadsBounds
        <4>2. QED
          BY <4>1 DEF Limit
      <3>2. QED
        BY <3>1
    <2>3. /\ up \in BOOLEAN
          /\ held \in [Call -> 0..3]
          /\ status \in [Call -> StatusCode]
      BY DEF IInv
    <2>4. connections \in 0..MaxConnections /\ lingering \in 0..connections
      BY Known
    <2>5. QED
      BY <2>1, <2>2, <2>3, <2>4 DEF TypeOK, Operation
  <1>2. QED
    BY Invariance, <1>1, PTL

\* Wherever a call ends, at its end, with an early return, with a session it
\* is refused or a statement that throws, it gives back all the sessions it
\* has: every open connection is a session of a call in progress or was one of
\* a process that is gone (DBInterface.cpp:25-27,
\* WrongthinkServiceImpl.cpp:47-57, 213-225, 241-267, 282-286).
THEOREM NoneLost == Spec => []Accounted
  <1>1. IInv => Accounted
    BY NothingHeld DEF IInv, Accounted
  <1>2. QED
    BY Invariance, <1>1, PTL

\* Waiting listeners keep their connections as long as the process lives, and
\* once they and dead processes have all there are, no call ends well any
\* more (WrongthinkServiceImpl.cpp:282-291).
THEOREM ListenersKeep == Spec => ListenersKeepAll
  <1>1. IInv /\ [Next]_vars => [Keeping]_vars
    BY StepKeeping
  <1>2. Spec => [][Keeping]_vars
    BY Invariance, <1>1, PTL DEF Spec
  <1>3. QED
    BY <1>2 DEF ListenersKeepAll, Keeping

=============================================================================
