-------------------------- MODULE DispatcherProofs --------------------------
(***************************************************************************)
(* The ring of recent calls, for every capacity and every table.  The call *)
(* with number n (from 0) is recorded at n % Capacity; the lemmas say what *)
(* is needed of %.  Then the search of the table: a function that satisfies*)
(* its equation answers by the table at every interval, as an interval of  *)
(* least length where it did not would contradict the equation.            *)
(***************************************************************************)
EXTENDS Dispatcher, SequenceTheorems, WellFoundedInduction, TLAPS

(* Quotient and remainder.                                                 *)
LEMMA Division ==
    ASSUME NEW x \in Int, NEW c \in Nat \ {0}
    PROVE  /\ x = c * (x \div c) + (x % c)
           /\ x \div c \in Int /\ x % c \in Int /\ 0 <= x % c /\ x % c < c
  OBVIOUS

(* The only multiple of c between -c and c is 0.                           *)
LEMMA Multiple ==
    ASSUME NEW c \in Nat \ {0}, NEW d \in Int, 0 - c < c * d, c * d < c
    PROVE  d = 0
  <1>1. CASE d >= 1
    <2>1. c * d >= c
      BY <1>1
    <2>. QED BY <2>1
  <1>2. CASE d <= -1
    <2>1. c * d <= 0 - c
      BY <1>2
    <2>. QED BY <2>1
  <1>. QED BY <1>1, <1>2

(* A product is distributed over a difference.                             *)
LEMMA Difference ==
    ASSUME NEW c \in Int, NEW p \in Int, NEW q \in Int
    PROVE  c * p - c * q = c * (p - q) /\ c * p \in Int /\ c * q \in Int
  OBVIOUS

(* A number written with a remainder below c has that remainder.           *)
LEMMA Remainder ==
    ASSUME NEW c \in Nat \ {0}, NEW q \in Int, NEW r \in 0..(c - 1)
    PROVE  (c * q + r) % c = r
  <1>. DEFINE x == c * q + r
  <1>1. x \in Int
    OBVIOUS
  <1>2. /\ x = c * (x \div c) + (x % c)
        /\ x \div c \in Int /\ x % c \in Int /\ 0 <= x % c /\ x % c < c
    BY <1>1, Division
  <1>3. c * q - c * (x \div c) = c * (q - (x \div c))
    BY <1>2, Difference
  <1>4. c * (q - (x \div c)) = (x % c) - r
    <2>. HIDE DEF x
    <2>1. x = c * q + r
      BY DEF x
    <2>2. c * q \in Int /\ c * (x \div c) \in Int
      BY <1>2
    <2>. QED BY <1>2, <1>3, <2>1, <2>2
  <1>5. q - (x \div c) = 0
    <2>. HIDE DEF x
    <2>1. q - (x \div c) \in Int
      BY <1>2
    <2>2. 0 - c < c * (q - (x \div c)) /\ c * (q - (x \div c)) < c
      BY <1>2, <1>4
    <2>. QED BY <2>1, <2>2, Multiple
  <1>. QED
    <2>. HIDE DEF x
    <2>1. c * (q - (x \div c)) = 0
      BY <1>5
    <2>2. x % c \in Int
      BY <1>2
    <2>3. x % c = r
      BY <1>4, <2>1, <2>2
    <2>. QED BY <2>3 DEF x

(* Reducing a summand first makes no difference.                           *)
LEMMA SumModulo ==
    ASSUME NEW c \in Nat \ {0}, NEW x \in Int, NEW y \in Int
    PROVE  ((x % c) + y) % c = (x + y) % c
  <1>1. /\ x = c * (x \div c) + (x % c)
        /\ x \div c \in Int /\ x % c \in Int
    BY Division
  <1>2. /\ x + y = c * ((x + y) \div c) + ((x + y) % c)
        /\ (x + y) \div c \in Int /\ (x + y) % c \in 0..(c - 1)
    BY Division, x + y \in Int
  <1>3. c * ((x + y) \div c) - c * (x \div c) = c * (((x + y) \div c) - (x \div c))
    BY <1>1, <1>2, Difference
  <1>4. (x % c) + y = c * (((x + y) \div c) - (x \div c)) + ((x + y) % c)
    <2>1. c * (x \div c) \in Int /\ c * ((x + y) \div c) \in Int
      BY <1>1, <1>2
    <2>. QED BY <1>1, <1>2, <1>3, <2>1
  <1>5. ((x + y) \div c) - (x \div c) \in Int
    BY <1>1, <1>2
  <1>. QED BY <1>2, <1>4, <1>5, Remainder

(* Nor does a whole turn.                                                  *)
LEMMA Turn ==
    ASSUME NEW c \in Nat \ {0}, NEW x \in Int
    PROVE  (x + c) % c = x % c
  <1>1. /\ x = c * (x \div c) + (x % c)
        /\ x \div c \in Int /\ x % c \in 0..(c - 1)
    BY Division
  <1>2. c * ((x \div c) + 1) = c * (x \div c) + c
    BY <1>1
  <1>3. x + c = c * ((x \div c) + 1) + (x % c)
    <2>1. c * (x \div c) \in Int
      BY <1>1
    <2>. QED BY <1>1, <1>2, <2>1
  <1>4. (x \div c) + 1 \in Int
    BY <1>1
  <1>. QED BY <1>1, <1>3, <1>4, Remainder

(* Less than c apart, two numbers have different remainders.               *)
LEMMA Apart ==
    ASSUME NEW c \in Nat \ {0}, NEW a \in Int, NEW b \in Int, a < b, b < a + c
    PROVE  a % c # b % c
  <1>. SUFFICES ASSUME a % c = b % c
                PROVE  FALSE
    OBVIOUS
  <1>1. /\ a = c * (a \div c) + (a % c) /\ a \div c \in Int /\ a % c \in Int
        /\ b = c * (b \div c) + (b % c) /\ b \div c \in Int /\ b % c \in Int
    BY Division
  <1>2. c * (b \div c) - c * (a \div c) = c * ((b \div c) - (a \div c))
    BY <1>1, Difference
  <1>3. c * ((b \div c) - (a \div c)) = b - a
    <2>1. c * (a \div c) \in Int /\ c * (b \div c) \in Int
      BY <1>1
    <2>. QED BY <1>1, <1>2, <2>1
  <1>4. (b \div c) - (a \div c) = 0
    <2>1. (b \div c) - (a \div c) \in Int
      BY <1>1
    <2>. QED BY <1>3, <2>1, Multiple
  <1>5. c * ((b \div c) - (a \div c)) = 0
    BY <1>4
  <1>. QED BY <1>3, <1>5

-----------------------------------------------------------------------------
Recorded == {[addr |-> Normalize(a), depth |-> d] : a \in Callees, d \in Nat}

Activations == [addr : Callees, in : {"hook", "function"}]

Slot(x) == x % Capacity

(* Of the calls in the history, the ring holds the latest: call number n   *)
(* at (n - 1) % Capacity.  The depth counts the activations.               *)
LatestInRing ==
    \A n \in 1..Len(log) : n > Len(log) - count => ring[Slot(n - 1)] = log[n]

RingInv ==
    /\ log \in Seq(Recorded)
    /\ stack \in Seq(Activations)
    /\ depth = Len(stack)
    /\ count = IF Len(log) < Capacity THEN Len(log) ELSE Capacity
    /\ cursor = Slot(Len(log))
    /\ DOMAIN ring = 0..(Capacity - 1)
    /\ LatestInRing

(* Slots are indices of the ring.                                          *)
LEMMA SlotInRing ==
    ASSUME NEW x \in Int
    PROVE  Slot(x) \in 0..(Capacity - 1)
  BY DispatcherAssumption, Division DEF Slot

(* They go on by one slot with each call,                                  *)
LEMMA SlotGoesOn ==
    ASSUME NEW x \in Int, NEW y \in Int
    PROVE  (Slot(x) + y) % Capacity = Slot(x + y)
  BY DispatcherAssumption, SumModulo DEF Slot

(* and come round after Capacity calls;                                    *)
LEMMA SlotGoesRound ==
    ASSUME NEW x \in Int
    PROVE  Slot(x + Capacity) = Slot(x)
  BY DispatcherAssumption, Turn DEF Slot

(* before that, they are different.                                        *)
LEMMA SlotsApart ==
    ASSUME NEW x \in Int, NEW y \in Int, x < y, y < x + Capacity
    PROVE  Slot(x) # Slot(y)
  BY DispatcherAssumption, Apart DEF Slot

(* A call that is still among the latest ones was so before, and its slot  *)
(* is not that of the new call.                                            *)
LEMMA StillKept ==
    ASSUME NEW c \in Nat \ {0}, NEW l \in Nat,
           NEW k \in Nat, k = IF l < c THEN l ELSE c,
           NEW more \in Nat, more = IF k < c THEN k + 1 ELSE k,
           NEW n \in 1..l, n > (l + 1) - more
    PROVE  n > l - k /\ n - 1 < l /\ l < (n - 1) + c
  OBVIOUS

(* Where the dump takes its entries.                                       *)
LEMMA Kept ==
    ASSUME NEW d \in Nat, NEW k \in Nat, NEW l \in Nat, l = d + k
    PROVE  \A i \in 1..k : d + i \in 1..l /\ d + i > l - k
  OBVIOUS

(* Nothing is called yet.                                                  *)
LEMMA RingInvInit == CallInit => RingInv
  <1>. SUFFICES ASSUME CallInit
                PROVE  RingInv
    OBVIOUS
  <1>1. log = <<>> /\ stack = <<>>
    BY DEF CallInit
  <1>2. Slot(0) = 0
    BY DispatcherAssumption DEF Slot
  <1>3. LatestInRing
    BY <1>1 DEF LatestInRing
  <1>. QED BY <1>1, <1>2, <1>3, DispatcherAssumption DEF CallInit, RingInv

(* The call that begins takes the slot of the oldest, or a free one.       *)
LEMMA CallKeepsRing ==
    ASSUME RingInv, NEW a \in Callees, CallByAddr(a)
    PROVE  RingInv'
  <1>. DEFINE call == [addr |-> Normalize(a), depth |-> Len(stack)]
  <1>1. /\ Capacity \in Nat \ {0}
        /\ Len(log) \in Nat /\ Len(stack) \in Nat /\ depth = Len(stack)
        /\ count = IF Len(log) < Capacity THEN Len(log) ELSE Capacity
        /\ cursor = Slot(Len(log)) /\ cursor \in 0..(Capacity - 1)
        /\ DOMAIN ring = 0..(Capacity - 1) /\ count \in Nat
    BY DispatcherAssumption, SlotInRing DEF RingInv
  <1>2. /\ log' = Append(log, call)
        /\ stack' = Append(stack, [addr |-> a, in |-> "hook"])
        /\ depth' = depth + 1
        /\ ring' = [ring EXCEPT ![cursor] = call]
        /\ count' = IF count < Capacity THEN count + 1 ELSE count
    BY <1>1 DEF CallByAddr, Record
  <1>3. call \in Recorded
    BY <1>1 DEF Recorded
  <1>4. log' \in Seq(Recorded) /\ Len(log') = Len(log) + 1
    BY <1>2, <1>3 DEF RingInv
  <1>5. stack' \in Seq(Activations) /\ depth' = Len(stack')
    <2>1. [addr |-> a, in |-> "hook"] \in Activations
      BY DEF Activations
    <2>. QED BY <1>1, <1>2, <2>1 DEF RingInv
  <1>6. count' = IF Len(log') < Capacity THEN Len(log') ELSE Capacity
    BY <1>1, <1>2, <1>4
  <1>7. cursor' = Slot(Len(log'))
    <2>1. cursor' = (cursor + 1) % Capacity
      BY DEF CallByAddr, Record
    <2>. QED BY <1>1, <1>4, <2>1, SlotGoesOn
  <1>8. DOMAIN ring' = 0..(Capacity - 1)
    BY <1>1, <1>2
  <1>9. ASSUME NEW n \in 1..Len(log'), n > Len(log') - count'
        PROVE  ring'[Slot(n - 1)] = log'[n]
    <2>1. CASE n = Len(log) + 1
      <3>1. log'[n] = call
        BY <1>2, <2>1 DEF RingInv
      <3>2. Slot(n - 1) = cursor
        BY <1>1, <2>1
      <3>. QED BY <1>1, <1>2, <3>1, <3>2
    <2>2. CASE n # Len(log) + 1
      <3>1. n \in 1..Len(log)
        BY <1>1, <1>4, <2>2
      <3>2. log'[n] = log[n]
        BY <1>2, <3>1 DEF RingInv
      <3>3. n > Len(log) - count /\ n - 1 < Len(log) /\ Len(log) < (n - 1) + Capacity
        <4>1. count' \in Nat
          BY <1>1, <1>2
        <4>2. n > (Len(log) + 1) - count'
          BY <1>4, <1>9
        <4>3. /\ count = IF Len(log) < Capacity THEN Len(log) ELSE Capacity
              /\ count' = IF count < Capacity THEN count + 1 ELSE count
          BY <1>1, <1>2
        <4>4. Capacity \in Nat \ {0} /\ Len(log) \in Nat /\ count \in Nat
          BY <1>1
        <4>. QED BY <3>1, <4>1, <4>2, <4>3, <4>4, StillKept
      <3>4. Slot(n - 1) # cursor
        BY <1>1, <3>1, <3>3, SlotsApart
      <3>5. ring'[Slot(n - 1)] = ring[Slot(n - 1)]
        BY <1>1, <1>2, <3>1, <3>4, SlotInRing
      <3>. QED BY <3>1, <3>2, <3>3, <3>5 DEF RingInv, LatestInRing
    <2>. QED BY <2>1, <2>2
  <1>10. LatestInRing'
    BY <1>9 DEF LatestInRing
  <1>. QED BY <1>4, <1>5, <1>6, <1>7, <1>8, <1>10 DEF RingInv

(* Every way out lowers the depth with the activations.                    *)
LEMMA LeaveKeepsRing ==
    ASSUME RingInv, stack # <<>>, Leave, UNCHANGED <<ring, cursor, count, log>>
    PROVE  RingInv'
  <1>1. /\ Pop \in Seq(Activations) /\ Len(Pop) = Len(stack) - 1
        /\ Len(stack) \in Nat \ {0}
    BY DEF Pop, RingInv
  <1>2. stack' \in Seq(Activations) /\ depth' = Len(stack')
    BY <1>1 DEF Leave, RingInv
  <1>. QED BY <1>2 DEF RingInv, LatestInRing

(* Entering the function keeps the activation.                             *)
LEMMA EntryKeepsRing ==
    ASSUME RingInv, stack # <<>>,
           stack' = Append(Pop, [Top EXCEPT !.in = "function"]),
           UNCHANGED <<ring, cursor, count, log, depth>>
    PROVE  RingInv'
  <1>1. /\ Pop \in Seq(Activations) /\ Len(Pop) = Len(stack) - 1
        /\ Len(stack) \in Nat \ {0} /\ Top \in Activations
    BY DEF Pop, Top, RingInv
  <1>2. [Top EXCEPT !.in = "function"] \in Activations
    BY <1>1 DEF Activations
  <1>3. stack' \in Seq(Activations) /\ Len(stack') = Len(stack)
    BY <1>1, <1>2
  <1>. QED BY <1>3 DEF RingInv, LatestInRing

(* The cases of the dispatcher's steps.                                    *)
LEMMA RingInvStep == RingInv /\ [CallNext]_callVars => RingInv'
  <1>. SUFFICES ASSUME RingInv, [CallNext]_callVars
                PROVE  RingInv'
    OBVIOUS
  <1>1. ASSUME NEW a \in Callees, CallByAddr(a)
        PROVE  RingInv'
    BY <1>1, CallKeepsRing
  <1>2. CASE Handled
    BY <1>2, LeaveKeepsRing DEF Handled, InHook
  <1>3. CASE NotHandled
    <2>. DEFINE f == Resolve(Normalize(Top.addr))
    <2>1. stack # <<>> /\ UNCHANGED <<ring, cursor, count, log>>
      BY <1>3 DEF NotHandled, InHook
    <2>2. CASE f = 0
      <3>1. Leave
        BY <1>3, <2>2 DEF NotHandled
      <3>. QED BY <2>1, <3>1, LeaveKeepsRing
    <2>3. CASE f # 0
      <3>1. /\ stack' = Append(Pop, [Top EXCEPT !.in = "function"])
            /\ UNCHANGED depth
        BY <1>3, <2>3 DEF NotHandled
      <3>. QED BY <2>1, <3>1, EntryKeepsRing
    <2>. QED BY <2>2, <2>3
  <1>4. CASE FunctionReturns
    BY <1>4, LeaveKeepsRing DEF FunctionReturns
  <1>5. CASE UNCHANGED callVars
    BY <1>5 DEF callVars, RingInv, LatestInRing
  <1>. QED BY <1>1, <1>2, <1>3, <1>4, <1>5 DEF CallNext

(* The dump begins at the oldest call that the ring holds.                 *)
LEMMA RingShowsLatest == RingInv => DumpShowsLatestCalls
  <1>. SUFFICES ASSUME RingInv
                PROVE  DumpShowsLatestCalls
    OBVIOUS
  <1>. DEFINE dropped == Len(log) - count
              start == (cursor + Capacity - count) % Capacity
  <1>1. /\ Capacity \in Nat \ {0} /\ Len(log) \in Nat
        /\ count = IF Len(log) < Capacity THEN Len(log) ELSE Capacity
        /\ cursor = Slot(Len(log)) /\ cursor \in Int
    BY DispatcherAssumption, SlotInRing DEF RingInv
  <1>2. /\ count \in Nat /\ dropped \in Nat /\ dropped \in Int
        /\ Len(log) = dropped + count
    BY <1>1
  <1>. HIDE DEF dropped
  <1>3. start = Slot(dropped)
    <2>. DEFINE rest == Capacity - count
    <2>1. (cursor + rest) % Capacity = Slot(Len(log) + rest)
      <3>1. rest \in Int
        BY <1>1, <1>2
      <3>. HIDE DEF rest
      <3>. QED BY <1>1, <3>1, SlotGoesOn
    <2>2. Slot(dropped + Capacity) = Slot(dropped)
      BY <1>2, SlotGoesRound
    <2>3. /\ cursor + Capacity - count = cursor + rest
          /\ Len(log) + rest = dropped + Capacity
      <3>1. Capacity \in Int /\ cursor \in Int /\ count \in Int /\ dropped \in Int
        BY <1>1, <1>2
      <3>. QED BY <1>2, <3>1
    <2>. QED BY <2>1, <2>2, <2>3
  <1>. HIDE DEF start
  <1>4. ASSUME NEW i \in 1..count
        PROVE  ring[(start + i - 1) % Capacity] = log[dropped + i]
    <2>1. (Slot(dropped) + (i - 1)) % Capacity = Slot(dropped + (i - 1))
      BY <1>2, SlotGoesOn
    <2>2. Slot(dropped) \in Int
      BY <1>1, <1>2, SlotInRing
    <2>3. /\ Slot(dropped) + i - 1 = Slot(dropped) + (i - 1)
          /\ dropped + (i - 1) = (dropped + i) - 1
      BY <1>2, <2>2
    <2>4. dropped + i \in 1..Len(log) /\ dropped + i > Len(log) - count
      BY <1>1, <1>2, Kept
    <2>5. ring[Slot((dropped + i) - 1)] = log[dropped + i]
      BY <2>4 DEF RingInv, LatestInRing
    <2>. QED BY <1>3, <2>1, <2>3, <2>5
  <1>5. Dump = [i \in 1..count |-> log[dropped + i]]
    BY <1>4 DEF Dump, start
  <1>6. SubSeq(log, dropped + 1, Len(log)) = [i \in 1..count |-> log[dropped + i]]
    <2>. DEFINE latest == SubSeq(log, dropped + 1, Len(log))
    <2>1. \A i \in (dropped + 1)..Len(log) : log[i] \in Recorded
      <3>1. \A i \in 1..Len(log) : log[i] \in Recorded
        BY DEF RingInv
      <3>2. (dropped + 1)..Len(log) \subseteq 1..Len(log)
        BY <1>1, <1>2
      <3>. QED BY <3>1, <3>2
    <2>2. dropped + 1 \in Int /\ Len(log) \in Int
      BY <1>1, <1>2
    <2>3. /\ latest \in Seq(Recorded)
          /\ Len(latest) = IF dropped + 1 <= Len(log)
                             THEN Len(log) - (dropped + 1) + 1 ELSE 0
          /\ \A i \in 1..(Len(log) - (dropped + 1) + 1) :
                latest[i] = log[(dropped + 1) + i - 1]
      BY <2>1, <2>2, SubSeqProperties
    <2>4. Len(log) - (dropped + 1) + 1 = count /\ Len(latest) = count
      BY <1>1, <1>2, <2>3
    <2>5. \A i \in 1..count : (dropped + 1) + i - 1 = dropped + i
      BY <1>2
    <2>. HIDE DEF latest
    <2>6. latest = [i \in 1..count |-> log[dropped + i]]
      BY <2>3, <2>4, <2>5
    <2>. QED BY <2>6 DEF latest
  <1>7. Len(log) - count = dropped
    BY DEF dropped
  <1>. QED BY <1>1, <1>5, <1>6, <1>7 DEF DumpShowsLatestCalls

(* The dump of recent calls shows the latest calls, in their order and     *)
(* each at its depth, for every capacity of the ring, every table and      *)
(* every order of calls, hooks, failed searches and returns                *)
(* (call_by_addr, record_recent_guest_call,                                *)
(* runtime_dump_recent_guest_calls).                                       *)
THEOREM TraceIsTrue == CallSpec => []DumpShowsLatestCalls
  <1>1. CallSpec => []RingInv
    BY RingInvInit, RingInvStep, PTL DEF CallSpec
  <1>. QED BY <1>1, RingShowsLatest, PTL
-----------------------------------------------------------------------------
(* The binary search, for every table.                                     *)

Row == [addr : Word, function : Word \ {0}]

IsTable(t) ==
    /\ t \in Seq(Row)
    /\ \A i \in 1..Len(t) : \A j \in 1..(i - 1) : t[j].addr < t[i].addr

Within(a, l, h) == {i \in l..h : table[i].addr = a}

(* What the search between two places ought to answer.                     *)
Answer(a, l, h) ==
    IF Within(a, l, h) = {} THEN 0
    ELSE table[CHOOSE i \in Within(a, l, h) : TRUE].function

(* The search's body, over an answer for smaller intervals.                *)
Body(f, a, l, h) ==
    LET mid == l + (h - l) \div 2
    IN  IF l > h THEN 0
        ELSE CASE table[mid].addr = a -> table[mid].function
               [] table[mid].addr < a -> f[<<mid + 1, h>>]
               [] OTHER               -> f[<<l, mid - 1>>]

Places == (1..(Len(table) + 1)) \X (0..Len(table))

Middle(l, h) == l + (h - l) \div 2

(* The middle lies in the interval.                                        *)
LEMMA MiddleIsBetween ==
    ASSUME NEW l \in Int, NEW h \in Int, l <= h
    PROVE  Middle(l, h) \in l..h
BY DEF Middle

(* A function that is the search for a, at every interval of the table.    *)
Solves(f, a) ==
    f = [p \in Places |-> Body(f, a, p[1], p[2])]

(* The resolver is such a function, begun at the whole table.              *)
LEMMA ResolveIsSearch ==
    ASSUME NEW a
    PROVE  Resolve(a) = (CHOOSE f : Solves(f, a))[<<1, Len(table)>>]
BY DEF Resolve, Solves, Body, Places

(* The table ascends.                                                      *)
LEMMA PlacesOfTable ==
    ASSUME IsTable(table), NEW i \in 1..Len(table)
    PROVE  /\ table[i].addr \in Int /\ table[i].function # 0
           /\ \A j \in 1..Len(table) : j < i => table[j].addr < table[i].addr
           /\ \A j \in 1..Len(table) : i < j => table[i].addr < table[j].addr
<1>1. table \in Seq(Row) /\ Len(table) \in Nat
  BY DEF IsTable
<1>2. table[i] \in Row
  BY <1>1
<1>3. table[i].addr \in Word /\ table[i].function # 0
  BY <1>2, DispatcherAssumption DEF Row
<1>4. \A x \in Word : x \in Int
  BY DEF Word
<1>5. \A k \in 1..Len(table) : \A j \in 1..(k - 1) : table[j].addr < table[k].addr
  BY DEF IsTable
<1>6. \A k \in 1..Len(table) : \A j \in 1..Len(table) : j < k => j \in 1..(k - 1)
  BY <1>1
<1> QED BY <1>3, <1>4, <1>5, <1>6

(* A place is found once.                                                  *)
LEMMA AnswerAt ==
    ASSUME IsTable(table), NEW a, NEW l \in 1..(Len(table) + 1), NEW h \in 0..Len(table),
           NEW i \in l..h, table[i].addr = a
    PROVE  Answer(a, l, h) = table[i].function
<1>1. Len(table) \in Nat
  BY DEF IsTable
<1>2. \A j \in l..h : j \in 1..Len(table) /\ j \in Int
  BY <1>1
<1>3. \A j \in l..h : table[j].addr = a => j = i
  <2> SUFFICES ASSUME NEW j \in l..h, table[j].addr = a, j # i PROVE FALSE
    OBVIOUS
  <2>1. table[i].addr \in Int /\ (j < i => table[j].addr < table[i].addr)
                             /\ (i < j => table[i].addr < table[j].addr)
    BY <1>2, PlacesOfTable
  <2>2. j < i \/ i < j
    BY <1>2
  <2> QED BY <2>1, <2>2
<1>4. Within(a, l, h) = {i}
  BY <1>3 DEF Within
<1> QED BY <1>4 DEF Answer

(* If the halves answer right, so does the whole.                          *)
LEMMA BodyAnswers ==
    ASSUME IsTable(table), NEW a \in Int,
           NEW l \in 1..(Len(table) + 1), NEW h \in 0..Len(table), NEW f,
           \A x \in 1..(Len(table) + 1), y \in 0..Len(table) :
              y - x < h - l => f[<<x, y>>] = Answer(a, x, y)
    PROVE  Body(f, a, l, h) = Answer(a, l, h)
<1>1. Len(table) \in Nat /\ l \in Int /\ h \in Int
  BY DEF IsTable
<1>2. CASE l > h
  <2>1. Within(a, l, h) = {}
    BY <1>1, <1>2 DEF Within
  <2> QED BY <1>2, <2>1 DEF Body, Answer
<1>3. CASE ~(l > h)
  <2> DEFINE mid == Middle(l, h)
  <2>1. /\ mid \in l..h /\ mid \in 1..Len(table) /\ mid \in Int
        /\ mid + 1 \in 1..(Len(table) + 1) /\ mid - 1 \in 0..Len(table)
        /\ h - (mid + 1) < h - l /\ (mid - 1) - l < h - l
    <3>1. mid \in l..h
      BY <1>1, <1>3, MiddleIsBetween
    <3> HIDE DEF mid
    <3> QED BY <1>1, <3>1
  <2>2. /\ table[mid].addr \in Int
        /\ \A j \in 1..Len(table) : j < mid => table[j].addr < table[mid].addr
        /\ \A j \in 1..Len(table) : mid < j => table[mid].addr < table[j].addr
    BY <2>1, PlacesOfTable
  <2>3. Body(f, a, l, h) = CASE table[mid].addr = a -> table[mid].function
                             [] table[mid].addr < a -> f[<<mid + 1, h>>]
                             [] OTHER               -> f[<<l, mid - 1>>]
    BY <1>3 DEF Body, Middle
  <2>4. \A j \in l..h : j \in 1..Len(table) /\ table[j].addr \in Int /\ j \in Int
    <3>1. \A j \in l..h : j \in 1..Len(table) /\ j \in Int
      BY <1>1
    <3> QED BY <3>1, PlacesOfTable
  <2> HIDE DEF mid
  <2>5. CASE table[mid].addr = a
    <3>1. Answer(a, l, h) = table[mid].function
      BY <2>1, <2>5, AnswerAt
    <3>2. Body(f, a, l, h) = table[mid].function
      BY <2>3, <2>5
    <3> QED BY <3>1, <3>2
  <2>6. CASE table[mid].addr < a
    <3>1. Body(f, a, l, h) = f[<<mid + 1, h>>]
      BY <2>2, <2>3, <2>6
    <3>2. f[<<mid + 1, h>>] = Answer(a, mid + 1, h)
      BY <2>1
    <3>3. \A j \in l..h : table[j].addr = a => j \in (mid + 1)..h
      <4> SUFFICES ASSUME NEW j \in l..h, table[j].addr = a, j <= mid PROVE FALSE
        BY <1>1, <2>1, <2>4
      <4>1. j < mid => table[j].addr < table[mid].addr
        BY <2>2, <2>4
      <4>2. j = mid \/ j < mid
        BY <2>1, <2>4
      <4> QED BY <2>2, <2>4, <2>6, <4>1, <4>2
    <3>4. \A j \in (mid + 1)..h : j \in l..h
      BY <1>1, <2>1
    <3>5. Within(a, l, h) = Within(a, mid + 1, h)
      BY <3>3, <3>4 DEF Within
    <3> QED BY <3>1, <3>2, <3>5 DEF Answer
  <2>7. CASE ~(table[mid].addr = a) /\ ~(table[mid].addr < a)
    <3>1. Body(f, a, l, h) = f[<<l, mid - 1>>]
      BY <2>3, <2>7
    <3>2. f[<<l, mid - 1>>] = Answer(a, l, mid - 1)
      BY <2>1
    <3>3. \A j \in l..h : table[j].addr = a => j \in l..(mid - 1)
      <4> SUFFICES ASSUME NEW j \in l..h, table[j].addr = a, mid <= j PROVE FALSE
        BY <1>1, <2>1, <2>4
      <4>1. mid < j => table[mid].addr < table[j].addr
        BY <2>2, <2>4
      <4>2. j = mid \/ mid < j
        BY <2>1, <2>4
      <4> QED BY <2>2, <2>4, <2>7, <4>1, <4>2
    <3>4. \A j \in l..(mid - 1) : j \in l..h
      BY <1>1, <2>1
    <3>5. Within(a, l, h) = Within(a, l, mid - 1)
      BY <3>3, <3>4 DEF Within
    <3> QED BY <3>1, <3>2, <3>5 DEF Answer
  <2> QED BY <2>5, <2>6, <2>7
<1> QED BY <1>2, <1>3

(* The search has an answer for every interval,                            *)
LEMMA SearchExists ==
    ASSUME IsTable(table), NEW a \in Int
    PROVE  \E f : Solves(f, a)
<1> DEFINE f == [p \in Places |-> Answer(a, p[1], p[2])]
<1>1. \A l \in 1..(Len(table) + 1), h \in 0..Len(table) : f[<<l, h>>] = Answer(a, l, h)
  BY DEF Places
<1>2. \A l \in 1..(Len(table) + 1), h \in 0..Len(table) : Body(f, a, l, h) = Answer(a, l, h)
  <2> TAKE l \in 1..(Len(table) + 1), h \in 0..Len(table)
  <2> HIDE DEF f
  <2> QED BY <1>1, BodyAnswers
<1>3. f = [p \in Places |-> Body(f, a, p[1], p[2])]
  <2> DEFINE g == f
  <2>1. \A p \in Places : Body(g, a, p[1], p[2]) = Answer(a, p[1], p[2])
    BY <1>2 DEF Places
  <2>2. f = [p \in Places |-> Answer(a, p[1], p[2])]
    OBVIOUS
  <2> HIDE DEF g
  <2>3. f = [p \in Places |-> Body(g, a, p[1], p[2])]
    BY <2>1, <2>2
  <2> QED BY <2>3 DEF g
<1> HIDE DEF f
<1> QED BY <1>3 DEF Solves

(* A set of numbers has a least one.                                       *)
LEMMA LeastIndex ==
    ASSUME NEW S \in SUBSET Nat, S # {}
    PROVE  \E x \in S : \A y \in S : x <= y
<1> DEFINE Less == {p \in Nat \X Nat : p[1] < p[2]}
<1>1. IsWellFoundedOn(Less, Nat)
  BY NatLessThanWellFounded DEF OpToRel
<1>2. PICK x \in S : \A y \in S : ~(<<y, x>> \in Less)
  BY <1>1, WFMin, Zenon
<1>3. ASSUME NEW y \in S PROVE x <= y
  <2>1. ~(y < x)
    BY <1>2
  <2> QED BY <2>1
<1> QED BY <1>3

(* and no other than the right one: an interval of least length for which  *)
(* it were another would contradict BodyAnswers.                           *)
LEMMA SearchAnswers ==
    ASSUME IsTable(table), NEW a \in Int, NEW f, Solves(f, a),
           NEW l \in 1..(Len(table) + 1), NEW h \in 0..Len(table)
    PROVE  f[<<l, h>>] = Answer(a, l, h)
<1> DEFINE n == Len(table)
           S == {k \in Nat : \E x \in 1..(n + 1), y \in 0..n :
                     k = y - x + n + 1 /\ f[<<x, y>>] # Answer(a, x, y)}
<1>1. n \in Nat
  BY DEF IsTable
<1>2. \A x \in 1..(n + 1), y \in 0..n : f[<<x, y>>] = Body(f, a, x, y)
  <2> TAKE x \in 1..(n + 1), y \in 0..n
  <2> DEFINE p == <<x, y>>
  <2>1. p \in Places /\ p[1] = x /\ p[2] = y
    BY DEF Places
  <2> HIDE DEF p
  <2>2. f[p] = Body(f, a, p[1], p[2])
    BY <2>1 DEF Solves
  <2> QED BY <2>1, <2>2 DEF p
<1> HIDE DEF n
<1>3. SUFFICES ASSUME f[<<l, h>>] # Answer(a, l, h) PROVE FALSE
  OBVIOUS
<1>4. S \in SUBSET Nat /\ S # {}
  <2>1. l \in 1..(n + 1) /\ h \in 0..n
    BY DEF n
  <2>2. h - l + n + 1 \in Nat
    BY <1>1, <2>1
  <2>3. h - l + n + 1 \in S
    BY <1>3, <2>1, <2>2
  <2> QED BY <2>3
<1>5. PICK k \in S : \A j \in S : k <= j
  <2> HIDE DEF S
  <2> QED BY <1>4, LeastIndex
<1>6. PICK x \in 1..(n + 1), y \in 0..n : k = y - x + n + 1 /\ f[<<x, y>>] # Answer(a, x, y)
  OBVIOUS
<1>7. \A v \in 1..(n + 1), w \in 0..n : w - v < y - x => f[<<v, w>>] = Answer(a, v, w)
  <2> SUFFICES ASSUME NEW v \in 1..(n + 1), NEW w \in 0..n, w - v < y - x,
                      f[<<v, w>>] # Answer(a, v, w)
               PROVE  FALSE
    OBVIOUS
  <2>1. w - v + n + 1 \in Nat /\ w - v + n + 1 < k
    BY <1>1, <1>6
  <2>2. w - v + n + 1 \in S
    BY <2>1
  <2>3. k <= w - v + n + 1
    BY <1>5, <2>2
  <2>4. k \in Int
    BY <1>4, <1>5
  <2> HIDE DEF S
  <2> QED BY <1>1, <2>1, <2>3, <2>4
<1>8. Body(f, a, x, y) = Answer(a, x, y)
  BY <1>6, <1>7, BodyAnswers DEF n
<1> QED BY <1>2, <1>6, <1>8

(* The table's entry for a, 0 if it has none.                              *)
LEMMA ResolveFinds ==
    ASSUME IsTable(table), NEW a \in Int
    PROVE  /\ \A i \in 1..Len(table) : table[i].addr = a => Resolve(a) = table[i].function
           /\ (\A i \in 1..Len(table) : table[i].addr # a) => Resolve(a) = 0
<1> DEFINE f == CHOOSE f : Solves(f, a)
<1>1. Solves(f, a)
  BY SearchExists
<1>2. Resolve(a) = f[<<1, Len(table)>>]
  BY ResolveIsSearch
<1>3. 1 \in 1..(Len(table) + 1) /\ Len(table) \in 0..Len(table)
  BY DEF IsTable
<1> HIDE DEF f
<1>4. Resolve(a) = Answer(a, 1, Len(table))
  BY <1>1, <1>2, <1>3, SearchAnswers
<1>5. \A i \in 1..Len(table) : table[i].addr = a => Resolve(a) = table[i].function
  BY <1>3, <1>4, AnswerAt
<1>6. (\A i \in 1..Len(table) : table[i].addr # a) => Within(a, 1, Len(table)) = {}
  BY DEF Within
<1> QED BY <1>4, <1>5, <1>6 DEF Answer

(* The windows of memory.                                                  *)
Windows == {0, Cached, Uncached}

(* In a window, the offset is what is left of its base;                    *)
LEMMA OffsetInWindow ==
    ASSUME NEW a \in Word, NEW b \in Windows, a \in b..(b + MemorySize - 1)
    PROVE  Offset(a) = a - b /\ Normalize(a) = a - b + Cached
<1>1. /\ MemorySize \in Nat /\ Cached \in Nat /\ Uncached \in Nat /\ a \in Nat
      /\ MemorySize <= Cached /\ Cached + MemorySize <= Uncached
  BY DispatcherAssumption DEF Word
<1>2. \A c \in Windows : a \in c..(c + MemorySize - 1) => c = b
  BY <1>1 DEF Windows
<1>3. (CHOOSE c \in {0, Cached, Uncached} : a \in c..(c + MemorySize - 1)) = b
  BY <1>2 DEF Windows
<1>4. Offset(a) = a - b
  BY <1>3 DEF Offset, Windows
<1>5. Normalize(a) = a - b + Cached
  BY <1>1 DEF Normalize, Windows
<1> QED BY <1>4, <1>5

(* in none, it is no offset of memory, and the address stays as it is.     *)
LEMMA OffsetOutside ==
    ASSUME NEW a \in Word, \A b \in Windows : a \notin b..(b + MemorySize - 1)
    PROVE  Offset(a) = MemorySize + a /\ Normalize(a) = a
<1>1. MemorySize \in Nat /\ a \in Nat
  BY DispatcherAssumption DEF Word
<1>2. ~(a < MemorySize)
  <2>1. a \notin 0..(0 + MemorySize - 1)
    BY DEF Windows
  <2> QED BY <1>1, <2>1
<1> QED BY <1>2 DEF Offset, Normalize, Windows

(* Two addresses are of one byte when they are normalized to one address.  *)
LEMMA OffsetsAgree ==
    ASSUME NEW a \in Word, NEW b \in Word, Normalize(b) = b
    PROVE  Offset(b) = Offset(a) <=> b = Normalize(a)
<1>1. /\ MemorySize \in Nat /\ Cached \in Nat /\ Uncached \in Nat /\ a \in Nat /\ b \in Nat
      /\ MemorySize <= Cached /\ Cached + MemorySize <= Uncached
  BY DispatcherAssumption DEF Word
<1>2. \/ Offset(b) = b - Cached /\ b \in Cached..(Cached + MemorySize - 1)
      \/ Offset(b) = MemorySize + b /\ b \notin Cached..(Cached + MemorySize - 1)
  <2>1. CASE \E c \in Windows : b \in c..(c + MemorySize - 1)
    <3>1. PICK c \in Windows : b \in c..(c + MemorySize - 1)
      BY <2>1
    <3>2. Offset(b) = b - c /\ b = b - c + Cached
      BY <3>1, OffsetInWindow
    <3>3. c \in Nat
      BY <1>1 DEF Windows
    <3>4. c = Cached
      BY <1>1, <3>2, <3>3
    <3> QED BY <3>1, <3>2, <3>4
  <2>2. CASE \A c \in Windows : b \notin c..(c + MemorySize - 1)
    <3>1. b \notin Cached..(Cached + MemorySize - 1)
      BY <2>2 DEF Windows
    <3> QED BY <2>2, <3>1, OffsetOutside
  <2> QED BY <2>1, <2>2
<1>3. CASE \E c \in Windows : a \in c..(c + MemorySize - 1)
  <2>1. PICK c \in Windows : a \in c..(c + MemorySize - 1)
    BY <1>3
  <2>2. Offset(a) = a - c /\ Normalize(a) = a - c + Cached
    BY <2>1, OffsetInWindow
  <2>3. c \in Nat
    BY <1>1 DEF Windows
  <2>4. a - c \in 0..(MemorySize - 1)
    BY <1>1, <2>1, <2>3
  <2> QED BY <1>1, <1>2, <2>2, <2>3, <2>4
<1>4. CASE \A c \in Windows : a \notin c..(c + MemorySize - 1)
  <2>1. Offset(a) = MemorySize + a /\ Normalize(a) = a
    BY <1>4, OffsetOutside
  <2>2. a \notin Cached..(Cached + MemorySize - 1)
    BY <1>4 DEF Windows
  <2> QED BY <1>1, <1>2, <2>1, <2>2
<1> QED BY <1>3, <1>4

(* The tables of the program are such tables.                              *)
LEMMA TableOfTables == table \in Tables => IsTable(table)
BY TablesAssumption DEF IsTable, Row

(* What the search answers, as a relation to the table.                    *)
Finds(a, f) ==
    /\ \A i \in 1..Len(table) : table[i].addr = a => f = table[i].function
    /\ (\A i \in 1..Len(table) : table[i].addr # a) => f = 0

(* The table stays as it was written, and the last answer is the search's. *)
AnswerInv ==
    /\ table \in Tables
    /\ answer # NoAnswer =>
          answer.addr \in Callees /\ Finds(Normalize(answer.addr), answer.function)

(* Nothing is resolved yet.                                                *)
LEMMA AnswerInvInit == CallInit => AnswerInv
BY DEF CallInit, AnswerInv

(* A step that leaves the table and the answer keeps the invariant,        *)
LEMMA AnswerStays ==
    ASSUME AnswerInv, UNCHANGED <<table, answer>>
    PROVE  AnswerInv'
BY DEF AnswerInv, Finds

(* and so does one that answers by the table.                              *)
LEMMA AnswerComes ==
    ASSUME AnswerInv, NEW a \in Callees, NEW f, Finds(Normalize(a), f),
           answer' = [addr |-> a, function |-> f], table' = table
    PROVE  AnswerInv'
<1>1. table' \in Tables
  BY DEF AnswerInv
<1>2. answer'.addr = a /\ answer'.function = f
  OBVIOUS
<1>3. Finds(Normalize(a), f) =
        /\ \A i \in 1..Len(table') : table'[i].addr = Normalize(a) => f = table'[i].function
        /\ (\A i \in 1..Len(table') : table'[i].addr # Normalize(a)) => f = 0
  BY DEF Finds
<1> QED BY <1>1, <1>2, <1>3 DEF AnswerInv, Finds

(* The search is the only step that answers.                               *)
LEMMA AnswerInvStep == RingInv /\ AnswerInv /\ [CallNext]_callVars => AnswerInv'
<1> SUFFICES ASSUME RingInv, AnswerInv, [CallNext]_callVars
             PROVE  AnswerInv'
  OBVIOUS
<1>1. ASSUME NEW a \in Callees, CallByAddr(a) PROVE AnswerInv'
  BY <1>1, AnswerStays DEF CallByAddr
<1>2. CASE Handled
  BY <1>2, AnswerStays DEF Handled
<1>3. CASE FunctionReturns
  BY <1>3, AnswerStays DEF FunctionReturns
<1>4. CASE UNCHANGED callVars
  BY <1>4, AnswerStays DEF callVars
<1>5. CASE NotHandled
  <2> DEFINE a == Top.addr
             f == Resolve(Normalize(a))
  <2>1. answer' = [addr |-> a, function |-> f] /\ table' = table /\ stack # <<>>
    BY <1>5 DEF NotHandled, InHook
  <2>2. a \in Callees
    <3>1. Top \in Activations
      BY <2>1 DEF Top, RingInv
    <3> QED BY <3>1 DEF Activations
  <2>3. Normalize(a) \in Int
    <3> HIDE DEF a
    <3>1. a \in Nat /\ Cached \in Nat /\ Uncached \in Nat
      BY <2>2, DispatcherAssumption DEF Word
    <3> QED BY <3>1 DEF Normalize
  <2>4. Finds(Normalize(a), f)
    <3>1. IsTable(table)
      BY TableOfTables DEF AnswerInv
    <3> HIDE DEF a
    <3> QED BY <2>3, <3>1, ResolveFinds DEF Finds
  <2> HIDE DEF f, a
  <2> QED BY <2>1, <2>2, <2>4, AnswerComes
<1> QED BY <1>1, <1>2, <1>3, <1>4, <1>5 DEF CallNext

(* The entry for the normalized address is the one for the same byte.      *)
LEMMA AnswersAreOfTable == AnswerInv => DispatchAnswersByTable
<1> SUFFICES ASSUME AnswerInv, answer # NoAnswer
             PROVE  DispatchAnswersByTable
  BY DEF DispatchAnswersByTable
<1> DEFINE a == answer.addr
           Same(i) == Offset(table[i].addr) = Offset(a)
<1>1. a \in Word /\ IsTable(table) /\ Finds(Normalize(a), answer.function)
  BY DispatcherAssumption, TableOfTables DEF AnswerInv
<1>2. \A i \in 1..Len(table) : Same(i) <=> table[i].addr = Normalize(a)
  <2> TAKE i \in 1..Len(table)
  <2>1. Normalize(table[i].addr) = table[i].addr
    BY TablesAssumption DEF AnswerInv
  <2>2. table[i].addr \in Word
    <3>1. table[i] \in Row
      BY <1>1 DEF IsTable
    <3> QED BY <3>1 DEF Row
  <2> QED BY <1>1, <2>1, <2>2, OffsetsAgree
<1> DEFINE place == CHOOSE i \in 1..Len(table) : Same(i)
<1>3. answer.function = IF \E i \in 1..Len(table) : Same(i) THEN table[place].function ELSE 0
  <2> HIDE DEF Same
  <2>1. CASE \E i \in 1..Len(table) : Same(i)
    <3>1. place \in 1..Len(table) /\ Same(place)
      BY <2>1
    <3> HIDE DEF place
    <3>2. table[place].addr = Normalize(a)
      BY <1>2, <3>1
    <3> QED BY <1>1, <2>1, <3>1, <3>2 DEF Finds
  <2>2. CASE ~\E i \in 1..Len(table) : Same(i)
    BY <1>1, <1>2, <2>2 DEF Finds
  <2> QED BY <2>1, <2>2
<1> QED BY <1>3 DEF DispatchAnswersByTable

(* The dispatcher enters the function that the table has for the word that *)
(* is called, by whichever window of memory it is called, and takes no     *)
(* address for unknown that has an entry: for every table in the order of  *)
(* its addresses and every size of the windows (call_by_addr,              *)
(* normalize_dispatch_addr, resolve_dispatch_function).                    *)
THEOREM DispatchIsByTable == CallSpec => []DispatchAnswersByTable
<1>1. CallSpec => [](RingInv /\ AnswerInv)
  BY RingInvInit, RingInvStep, AnswerInvInit, AnswerInvStep, PTL DEF CallSpec
<1> QED BY <1>1, AnswersAreOfTable, PTL
=============================================================================
