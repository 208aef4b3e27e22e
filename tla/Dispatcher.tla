----------------------------- MODULE Dispatcher -----------------------------
(***************************************************************************)
(* jump_table.c, the dispatcher that is generated beside the functions:    *)
(* call_by_addr with the table it searches, and the trace that it keeps of *)
(* the calls, a ring of the latest ones with their depth.                  *)
(*                                                                         *)
(* A call asks try_hle_stub first.  The hook, and the function that is     *)
(* entered, may call call_by_addr again before they return.                *)
(***************************************************************************)
EXTENDS MachineWords

CONSTANTS
    Tables,      \* sequences of [addr, function], in the order of addresses
    MemorySize,  \* 0x01800000: what the dispatcher takes for memory
    Cached,      \* 0x80000000, where functions lie
    Uncached,    \* 0xC0000000
    Capacity,    \* RECENT_GUEST_CALL_CAPACITY
    Callees      \* addresses that are called

ASSUME DispatcherAssumption ==
    /\ Capacity \in Nat \ {0} /\ Callees \subseteq Word
    /\ {MemorySize, Cached, Uncached} \subseteq Nat
    /\ MemorySize <= Cached
    /\ Cached + MemorySize <= Uncached /\ Uncached + MemorySize <= Modulus

VARIABLES
    table,    \* g_dispatch_entries
    ring,     \* g_recent_guest_calls
    cursor,   \* g_recent_guest_call_cursor
    count,    \* g_recent_guest_call_count
    depth,    \* g_trace_depth
    stack,    \* activations of call_by_addr: the address, and where it is
    log,      \* history: every call, with the activations around it
    answer    \* history: the last address resolved, as it was called, and the result

callVars == <<table, ring, cursor, count, depth, stack, log, answer>>

Empty == [addr |-> 0, depth |-> 0]

NoAnswer == [addr |-> -1, function |-> 0]

CallInit ==
    /\ table \in Tables
    /\ ring = [i \in 0..(Capacity - 1) |-> Empty]
    /\ cursor = 0 /\ count = 0 /\ depth = 0
    /\ stack = <<>> /\ log = <<>> /\ answer = NoAnswer

(* normalize_dispatch_addr: the windows of memory fall on the cached one.  *)
Normalize(a) ==
    IF a < MemorySize THEN a + Cached
    ELSE IF a \in Uncached..(Uncached + MemorySize - 1) THEN a - Uncached + Cached
    ELSE a

(* What emitAllFunctions writes: entries in the order of their addresses,  *)
(* none twice.  Programs are linked to run in the cached window, or behind *)
(* memory; an entry in another window is one the dispatcher never finds.   *)
ASSUME TablesAssumption ==
    /\ Tables \subseteq Seq([addr : Word, function : Word \ {0}])
    /\ \A t \in Tables : \A i \in 1..Len(t) :
          /\ Normalize(t[i].addr) = t[i].addr
          /\ \A j \in 1..(i - 1) : t[j].addr < t[i].addr

BadResolve(a) ==
    LET found[p \in (1..(Len(table) + 1)) \X (0..Len(table))] ==
            LET low == p[1]
                high == p[2]
                mid == low + (high - low) \div 2
            IN  IF low >= high THEN 0
                ELSE CASE table[mid].addr = a -> table[mid].function
                       [] table[mid].addr < a -> found[<<mid + 1, high>>]
                       [] OTHER               -> found[<<low, mid - 1>>]
    IN  found[<<1, Len(table)>>]

(* resolve_dispatch_function: a binary search, 0 when it fails.            *)
Resolve(a) ==
    LET found[p \in (1..(Len(table) + 1)) \X (0..Len(table))] ==
            LET low == p[1]
                high == p[2]
                mid == low + (high - low) \div 2
            IN  IF low > high THEN 0
                ELSE CASE table[mid].addr = a -> table[mid].function
                       [] table[mid].addr < a -> found[<<mid + 1, high>>]
                       [] OTHER               -> found[<<low, mid - 1>>]
    IN  found[<<1, Len(table)>>]

(* record_recent_guest_call *)
Record(a) ==
    /\ ring' = [ring EXCEPT ![cursor] = [addr |-> a, depth |-> depth]]
    /\ cursor' = (cursor + 1) % Capacity
    /\ count' = IF count < Capacity THEN count + 1 ELSE count

(* The head of call_by_addr, up to the hook.                               *)
CallByAddr(a) ==
    /\ Record(Normalize(a))
    /\ depth' = depth + 1
    /\ stack' = Append(stack, [addr |-> a, in |-> "hook"])
    /\ log' = Append(log, [addr |-> Normalize(a), depth |-> Len(stack)])
    /\ UNCHANGED <<table, answer>>

Top == stack[Len(stack)]
Pop == SubSeq(stack, 1, Len(stack) - 1)

BadLeave ==
    /\ stack' = Pop
    /\ UNCHANGED depth

(* Every way out of call_by_addr.                                          *)
Leave ==
    /\ stack' = Pop
    /\ depth' = IF depth > 0 THEN depth - 1 ELSE depth

InHook == stack # <<>> /\ Top.in = "hook"

(* try_hle_stub returns 1.                                                 *)
Handled ==
    /\ InHook
    /\ Leave
    /\ UNCHANGED <<table, ring, cursor, count, log, answer>>

(* It returns 0, and the address is looked up.                             *)
NotHandled ==
    /\ InHook
    /\ LET f == Resolve(Normalize(Top.addr))
       IN  /\ answer' = [addr |-> Top.addr, function |-> f]
           /\ \/ f = 0 /\ Leave
              \/ /\ f # 0
                 /\ stack' = Append(Pop, [Top EXCEPT !.in = "function"])
                 /\ UNCHANGED depth
    /\ UNCHANGED <<table, ring, cursor, count, log>>

(* The function comes back.                                                *)
FunctionReturns ==
    /\ stack # <<>> /\ Top.in = "function"
    /\ Leave
    /\ UNCHANGED <<table, ring, cursor, count, log, answer>>

CallNext ==
    \/ \E a \in Callees : CallByAddr(a)
    \/ Handled \/ NotHandled \/ FunctionReturns

CallSpec == CallInit /\ [][CallNext]_callVars

-----------------------------------------------------------------------------
CallTypeOK ==
    /\ cursor \in 0..(Capacity - 1) /\ count \in 0..Capacity /\ depth \in Nat

(* What runtime_dump_recent_guest_calls prints, oldest first.              *)
Dump ==
    LET start == (cursor + Capacity - count) % Capacity
    IN  [i \in 1..count |-> ring[(start + i - 1) % Capacity]]

(* The dump shows the latest calls, as many as the ring holds, in their    *)
(* order and each with the number of calls that were open around it:       *)
(* whatever way calls end, by a hook, by the search or by a return         *)
(* (call_by_addr, record_recent_guest_call).                               *)
DumpShowsLatestCalls ==
    LET kept == IF Len(log) < Capacity THEN Len(log) ELSE Capacity
    IN  Dump = SubSeq(log, Len(log) - kept + 1, Len(log))

(* Two addresses of one byte of memory.                                    *)
Offset(a) ==
    IF \E b \in {0, Cached, Uncached} : a \in b..(b + MemorySize - 1)
      THEN a - (CHOOSE b \in {0, Cached, Uncached} : a \in b..(b + MemorySize - 1))
      ELSE MemorySize + a

(* call_by_addr enters the function that the table has for the word that   *)
(* is called, by whichever window it is called, and takes no address for   *)
(* unknown that has an entry (resolve_dispatch_function).                  *)
DispatchAnswersByTable ==
    answer # NoAnswer =>
        answer.function =
            IF \E i \in 1..Len(table) : Offset(table[i].addr) = Offset(answer.addr)
              THEN table[CHOOSE i \in 1..Len(table) :
                             Offset(table[i].addr) = Offset(answer.addr)].function
              ELSE 0
=============================================================================
