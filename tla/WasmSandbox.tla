---------------------------- MODULE WasmSandbox -----------------------------
(***************************************************************************)
(* One WASM sandbox of IronClaw (ironclaw/src/sandbox.rs): the fuel and    *)
(* the memory of a guest module over its calls.                            *)
(*                                                                         *)
(* The linker offers the guest one import, the capped memory, and no host  *)
(* function, so a guest never counts a host call.  What the guest does in  *)
(* a call is nondeterministic: how much fuel it burns, how far its memory  *)
(* grows, how it ends; its epoch is advanced from another thread.          *)
(***************************************************************************)
EXTENDS Naturals

CONSTANTS
  FuelLimit,  \* fuel_limit
  MaxPages,   \* max_memory_bytes, in pages
  AllPages,   \* bound: pages a memory without a cap grows to
  MaxCalls    \* bound: calls of execute

\* SandboxConfig::validate
SandboxAssumption ==
  /\ FuelLimit \in Nat \ {0} /\ MaxPages \in Nat \ {0}
  /\ AllPages \in Nat /\ MaxPages < AllPages /\ MaxCalls \in Nat

VARIABLES
  shape,       \* which memory the guest exports
  pages,       \* the size of the memory the guest uses
  fuel,        \* what the store has left
  fuel_consumed,
  memory_used, \* memory_used_bytes, in pages
  terminated,
  result,      \* what the last call returned
  burnt,       \* history: all the fuel the guest has burnt
  calls        \* history: calls that reached the guest

vars == <<shape, pages, fuel, fuel_consumed, memory_used, terminated, result,
          burnt, calls>>

\* the import exported again, a memory of the guest's own, or none
Shapes == {"imported", "own", "hidden"}
Results == {"new", "Ok", "FunctionNotFound", "FuelExhausted", "EpochDeadline",
            "MemoryLimitExceeded", "Trap", "Terminated"}

Cap == IF shape = "own" THEN AllPages ELSE MaxPages
has_memory == shape # "hidden"

\* instantiation may run a start function
Init ==
  /\ shape \in Shapes
  /\ pages = 1
  /\ fuel \in 0 .. FuelLimit
  /\ burnt = FuelLimit - fuel
  /\ fuel_consumed = 0
  /\ memory_used = 0
  /\ terminated = FALSE
  /\ result = "new"
  /\ calls = 0

-----------------------------------------------------------------------------
\* mutant: the consumption is computed after the store was filled up
RefuelFirst ==
  /\ ~terminated /\ calls < MaxCalls
  /\ fuel' = FuelLimit
  /\ fuel_consumed' = fuel_consumed + (FuelLimit - fuel')

\* execute, up to the lookup of the function
Refuel ==
  /\ ~terminated /\ calls < MaxCalls
  /\ fuel_consumed' = fuel_consumed + (FuelLimit - fuel)

Rejected(r) ==
  /\ Refuel
  /\ fuel' = FuelLimit
  /\ result' = r
  /\ UNCHANGED <<shape, pages, memory_used, terminated, burnt, calls>>

NotFound == Rejected("FunctionNotFound")

(* Input is copied to the start of the exported memory.                    *)
InputRefused(length) ==
  \/ length > 0 /\ ~has_memory /\ Rejected("Trap")
  \/ length > pages /\ has_memory /\ Rejected("MemoryLimitExceeded")

Written(length) == length = 0 \/ (has_memory /\ length <= pages)

Run(length, spent, grown) ==
  /\ Refuel
  /\ Written(length)
  /\ fuel' = FuelLimit - spent
  /\ burnt' = burnt + spent
  /\ pages' = grown /\ grown <= Cap
  /\ calls' = calls + 1
  /\ UNCHANGED <<shape, terminated>>

classify_trap(spent) ==
  {"EpochDeadline", "Trap"} \cup
  (IF spent = FuelLimit THEN {"FuelExhausted"} ELSE {})

(* The guest traps: what it burnt and grew stays, the usage is not read.   *)
Trapped(length, spent, grown) ==
  /\ Run(length, spent, grown)
  /\ result' \in classify_trap(spent)
  /\ UNCHANGED memory_used

Output(length) ==
  IF length = 0 THEN "Ok"
  ELSE IF ~has_memory THEN "Trap"
  ELSE IF length > pages' THEN "MemoryLimitExceeded" ELSE "Ok"

(* The guest returns the length of its output.                             *)
Returned(length, spent, grown, output) ==
  /\ Run(length, spent, grown)
  /\ memory_used' = IF has_memory THEN grown ELSE memory_used
  /\ result' = Output(output)

execute ==
  \/ NotFound
  \/ \E length \in 0 .. AllPages : InputRefused(length)
  \/ \E length \in 0 .. MaxPages, spent \in 0 .. FuelLimit,
        grown \in pages .. AllPages :
       \/ Trapped(length, spent, grown)
       \/ \E output \in 0 .. AllPages : Returned(length, spent, grown, output)

ExecuteTerminated ==
  /\ terminated
  /\ result' = "Terminated"
  /\ UNCHANGED <<shape, pages, fuel, fuel_consumed, memory_used, terminated,
                 burnt, calls>>

terminate ==
  /\ terminated' = TRUE
  /\ fuel' = 0
  /\ UNCHANGED <<shape, pages, fuel_consumed, memory_used, result, burnt, calls>>

resource_usage ==
  [fuel |-> fuel_consumed, memory |-> memory_used, active |-> ~terminated]

Next == execute \/ ExecuteTerminated \/ terminate

Spec == Init /\ [][Next]_vars

-----------------------------------------------------------------------------
(* Every variable has its type.                                            *)
TypeOK ==
  /\ shape \in Shapes
  /\ pages \in 1 .. Cap
  /\ fuel \in 0 .. FuelLimit
  /\ fuel_consumed \in Nat /\ burnt \in Nat
  /\ memory_used \in 0 .. AllPages
  /\ terminated \in BOOLEAN
  /\ result \in Results
  /\ calls \in 0 .. MaxCalls

(* What resource_usage reports of a sandbox, however its calls ended: its  *)
(* fuel_consumed lacks no more than the last call, exactly what is missing *)
(* from the store until the sandbox is terminated; no call burns more than *)
(* the limit; and the memory is never reported larger than it is, nor      *)
(* smaller once a call has returned.                                       *)
UsageIsExact ==
  LET usage == resource_usage
  IN /\ usage.active => burnt = usage.fuel + (FuelLimit - fuel)
     /\ burnt >= usage.fuel /\ burnt <= usage.fuel + FuelLimit
     /\ burnt <= FuelLimit * (calls + 1)
     /\ usage.memory <= pages
     /\ (result = "Ok" /\ has_memory) => usage.memory = pages
=============================================================================
