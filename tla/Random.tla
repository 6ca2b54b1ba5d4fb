------------------------------- MODULE Random -------------------------------
(***************************************************************************)
(* bc_io_random_bytes, called by threads that come and go: a loop of       *)
(* getrandom, and, from the byte where that fails, a loop of read on       *)
(* /dev/urandom, whose descriptor each thread keeps for its next call and  *)
(* nobody closes.                                                          *)
(***************************************************************************)
EXTENDS Integers

CONSTANTS
  Threads,
  MaxLength,
  Lengths,      \* the lengths asked for; sizeof(uint64_t) is one of them
  Descriptors,  \* the descriptors the process may have
  MaxCalls      \* how many calls a thread makes before it exits

(* No descriptor is negative: -1 stands for none. *)
ASSUME RandomAssumption ==
  /\ MaxLength \in Nat /\ Lengths \subseteq 0 .. MaxLength
  /\ MaxCalls \in Nat
  /\ Descriptors \subseteq Nat

VARIABLES
  pc,          \* pc[t]: "idle", "getrandom", "check", "open", "read" or "exited"
  length,      \* length[t]: of the buffer of the call
  output,      \* output[t]: the offset of the output pointer in it
  remaining,   \* remaining[t]
  filled,      \* filled[t][i]: how often byte i has been written
  ret,         \* ret[t]: what the last call returned
  urandom,     \* bc_io_random_urandom_descriptor of each thread
  open,        \* the descriptors that are open on /dev/urandom
  lost,        \* history: those among them whose thread has exited
  calls        \* calls[t]: how many it has made

call == <<length, output, remaining, filled>>
table == <<urandom, open, lost>>
random_vars == <<pc, call, ret, table, calls>>

None == -1

Positions == 0 .. MaxLength   \* of which those from length[t] on are behind the buffer

(* Variant: one descriptor for the process. *)
SharedSlot(t) == CHOOSE u \in Threads : TRUE

(* __thread: every thread has a descriptor of its own. *)
Slot(t) == t

RandomInit ==
  /\ pc = [t \in Threads |-> "idle"]
  /\ length = [t \in Threads |-> 0] /\ output = [t \in Threads |-> 0]
  /\ remaining = [t \in Threads |-> 0]
  /\ filled = [t \in Threads |-> [i \in Positions |-> 0]]
  /\ ret = [t \in Threads |-> "none"]
  /\ urandom = [t \in Threads |-> None] /\ open = {} /\ lost = {}
  /\ calls = [t \in Threads |-> 0]

Moves(t, to) == pc' = [pc EXCEPT ![t] = to]
Returns(t, ok) == Moves(t, "idle") /\ ret' = [ret EXCEPT ![t] = ok]

(* A call on a buffer of n bytes.  Nothing is asked for an empty one, and  *)
(* nothing is done without a buffer.                                       *)
RandomBytes(t, n) ==
  /\ pc[t] = "idle" /\ calls[t] < MaxCalls
  /\ calls' = [calls EXCEPT ![t] = @ + 1]
  /\ length' = [length EXCEPT ![t] = n]
  /\ output' = [output EXCEPT ![t] = 0]
  /\ remaining' = [remaining EXCEPT ![t] = n]
  /\ filled' = [filled EXCEPT ![t] = [i \in Positions |-> 0]]
  /\ \/ n = 0 /\ Returns(t, "true")
     \/ n > 0 /\ Returns(t, "false")
     \/ n > 0 /\ Moves(t, "getrandom") /\ ret' = [ret EXCEPT ![t] = "none"]
  /\ UNCHANGED table

(* The system writes some bytes at the output pointer, which moves on. *)
Fill(t, count) ==
  /\ count <= remaining[t]
  /\ filled' = [filled EXCEPT ![t] = [i \in Positions |->
       IF i \in output[t] .. output[t] + count - 1 THEN @[i] + 1 ELSE @[i]]]
  /\ output' = [output EXCEPT ![t] = @ + count]
  /\ remaining' = [remaining EXCEPT ![t] = @ - count]
  /\ IF count = remaining[t] THEN Returns(t, "true") ELSE UNCHANGED <<pc, ret>>

GetRandom(t) ==
  /\ pc[t] = "getrandom" /\ (\E count \in 1 .. remaining[t] : Fill(t, count))
  /\ UNCHANGED <<length, table, calls>>

(* EINTR: the loop turns once more and nothing has changed. *)
Interrupted(t) == pc[t] \in {"getrandom", "read"} /\ UNCHANGED random_vars

(* Variant: urandom is asked for the whole buffer, from where it stands. *)
GetRandomFailsWhole(t) ==
  /\ pc[t] = "getrandom" /\ Moves(t, "check")
  /\ remaining' = [remaining EXCEPT ![t] = length[t]]
  /\ UNCHANGED <<length, output, filled, ret, table, calls>>

(* Any other error: the rest of the buffer comes from urandom. *)
GetRandomFails(t) ==
  /\ pc[t] = "getrandom" /\ Moves(t, "check")
  /\ UNCHANGED <<call, ret, table, calls>>

(* Variant: the descriptor is opened for every call. *)
CheckUrandomAnew(t) ==
  /\ pc[t] = "check" /\ Moves(t, "open") /\ UNCHANGED <<call, ret, table, calls>>

(* bc_io_random_open_urandom: is it open already? *)
CheckUrandom(t) ==
  /\ pc[t] = "check" /\ Moves(t, IF urandom[Slot(t)] # None THEN "read" ELSE "open")
  /\ UNCHANGED <<call, ret, table, calls>>

OpenUrandom(t) ==
  /\ pc[t] = "open"
  /\ \/ /\ \E d \in Descriptors \ open :
             open' = open \cup {d} /\ urandom' = [urandom EXCEPT ![Slot(t)] = d]
        /\ Moves(t, "read") /\ UNCHANGED <<ret, lost>>
     \/ Returns(t, "false") /\ UNCHANGED table
  /\ UNCHANGED <<call, calls>>

(* read returns some bytes; or fails, or says that there are no more. *)
ReadUrandom(t) ==
  /\ pc[t] = "read"
  /\ \/ \E count \in 1 .. remaining[t] : Fill(t, count)
     \/ Returns(t, "false") /\ UNCHANGED <<output, remaining, filled>>
  /\ UNCHANGED <<length, table, calls>>

(* The thread ends, and its descriptor stays open.  Another may start. *)
Exit(t) ==
  /\ pc[t] = "idle" /\ Moves(t, "exited")
  /\ lost' = lost \cup ({urandom[t]} \ {None})
  /\ UNCHANGED <<call, ret, urandom, open, calls>>

Start(t) ==
  /\ pc[t] = "exited" /\ Moves(t, "idle")
  /\ urandom' = [urandom EXCEPT ![t] = None]
  /\ calls' = [calls EXCEPT ![t] = 0]
  /\ UNCHANGED <<call, ret, open, lost>>

Running(t) ==
  \/ GetRandom(t) \/ GetRandomFails(t) \/ CheckUrandom(t) \/ OpenUrandom(t) \/ ReadUrandom(t)

RandomNext == \E t \in Threads :
  \/ \E n \in Lengths : RandomBytes(t, n)
  \/ Running(t) \/ Interrupted(t) \/ Exit(t) \/ Start(t)

RandomSpec == RandomInit /\ [][RandomNext]_random_vars

-----------------------------------------------------------------------------
RandomTypeOK ==
  /\ pc \in [Threads -> {"idle", "getrandom", "check", "open", "read", "exited"}]
  /\ length \in [Threads -> Lengths \cup {0}]
  /\ output \in [Threads -> Nat] /\ remaining \in [Threads -> Nat]
  /\ filled \in [Threads -> [Positions -> Nat]]
  /\ ret \in [Threads -> {"none", "true", "false"}]
  /\ urandom \in [Threads -> Descriptors \cup {None}]
  /\ open \subseteq Descriptors /\ lost \subseteq Descriptors
  /\ calls \in [Threads -> 0 .. MaxCalls]

(***************************************************************************)
(* When the call returns true every byte of the buffer has been written,   *)
(* once, wherever getrandom gave up; and no byte behind the buffer ever    *)
(* is, whatever the call returns.                                          *)
(***************************************************************************)
FilledOnce ==
  \A t \in Threads : \A i \in Positions :
    /\ i >= length[t] => filled[t][i] = 0
    /\ i < length[t] => filled[t][i] <= 1
    /\ ret[t] = "true" /\ i < length[t] => filled[t][i] = 1

(***************************************************************************)
(* Threads that fall back at the same time do not take each other's        *)
(* descriptor, and no descriptor is lost while its thread lives: a process *)
(* has at most one for each thread that lives and one for each that has    *)
(* exited.                                                                 *)
(***************************************************************************)
DescriptorsKept ==
  /\ lost \subseteq open
  /\ \A t \in Threads : urandom[t] # None => urandom[t] \in open
  /\ \A t, u \in Threads : t # u /\ urandom[t] # None => urandom[t] # urandom[u]
  /\ \A d \in open \ lost : \E t \in Threads : urandom[t] = d
  /\ \A t \in Threads : pc[t] # "exited" => urandom[t] \notin lost
=============================================================================
