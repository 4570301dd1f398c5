--------------------------- MODULE CommandBuffers ---------------------------
(***************************************************************************)
(* The command buffers of src/utils.c.  execute_cmd_fast runs a command    *)
(* and returns its output in one of 256 buffers, taken in turn and never   *)
(* given back: the 257th command takes the buffer of the first.  The       *)
(* buffers are allocated once, behind a flag that is tested without the    *)
(* mutex and again with it.  A buffer that could not be allocated is NULL, *)
(* and then the output goes to one static buffer, the fallback, which is   *)
(* wiped after the mutex is given up.  What is done with the mutex is one  *)
(* step.                                                                   *)
(*                                                                         *)
(* What a caller does with the text is left to the module that composes    *)
(* this one: from "held" it calls Release.                                 *)
(***************************************************************************)
EXTENDS Integers

CONSTANTS
    Threads,            \* the threads that run commands
    NBufs,              \* the number of buffers (256)
    MaxCommands,        \* bound: commands run in a behaviour; kept by the callers
    MayFail             \* the buffers that may get no memory

ASSUME BufferAssumption ==
    /\ NBufs \in Nat \ {0}
    /\ MaxCommands \in Nat
    /\ MayFail \subseteq 0 .. NBufs - 1

VARIABLES
    cmd_buffer_pool,    \* cmd_buffer_pool[i]: the buffer at i, or Null
    pool_index,
    pool_initialized,
    text,               \* text[b]: the ticket of the command b's text is of,
                        \* for the fallback and every buffer allocated so far
    cmd_pc,             \* cmd_pc[t]: where t is in execute_cmd_fast
    ticket,             \* ticket[t]: the number of t's command
    taken,              \* taken[t]: the buffer t's command writes to
    started,            \* history: commands that took a buffer
    fills,              \* history: how often the pool was allocated
    lapped,             \* history: a command overtook one NBufs before it
    crowded             \* history: the fallback was taken while it was in use

cmd_vars == <<cmd_buffer_pool, pool_index, pool_initialized,
              text, cmd_pc, ticket, taken, started, fills, lapped, crowded>>
history == <<fills, lapped, crowded>>

(* Buffers are numbered in the order of their allocation.                  *)
Slots == 0 .. NBufs - 1
Null == -1                          \* NULL, in the pool
Fallback == -2                      \* the static buffer
Buffers == Slots \cup {Fallback}    \* those of a pool allocated once
Fresh(i) == fills * NBufs + i       \* what the next allocation puts at i
NoText == 0

CmdInit ==
    /\ cmd_buffer_pool = [i \in Slots |-> Null]
    /\ pool_index = 0
    /\ pool_initialized = FALSE
    /\ text = [b \in {Fallback} |-> NoText]
    /\ cmd_pc = [t \in Threads |-> "idle"]
    /\ ticket = [t \in Threads |-> NoText]
    /\ taken = [t \in Threads |-> Null]
    /\ started = 0 /\ fills = 0
    /\ lapped = FALSE /\ crowded = FALSE

Goto(t, from, to) == cmd_pc[t] = from /\ cmd_pc' = [cmd_pc EXCEPT ![t] = to]

(* optimize_memory_pools, called from main: back to "idle" when it is done *)
(* (on = "idle").  execute_cmd_fast goes on to take a buffer (on = "take").*)
OptimizeMemoryPools(t, on) ==
    /\ cmd_pc[t] = "idle"
    /\ cmd_pc' = [cmd_pc EXCEPT ![t] =
                    IF ~pool_initialized
                    THEN IF on = "take" THEN "fill_and_take" ELSE "fill"
                    ELSE on]
    /\ UNCHANGED <<cmd_buffer_pool, pool_index, pool_initialized,
                   text, ticket, taken, started, history>>

(* execute_cmd_fast(cmd) up to the mutex, for a command of legal length.   *)
ExecuteCmdFast(t) == OptimizeMemoryPools(t, "take")

AfterFill(t) ==
    \/ Goto(t, "fill", "idle")
    \/ Goto(t, "fill_and_take", "take")

(* With the mutex: nothing if the flag is set by now.                      *)
FillDone(t) ==
    /\ pool_initialized
    /\ AfterFill(t)
    /\ UNCHANGED <<cmd_buffer_pool, pool_index, pool_initialized, text,
                   ticket, taken, started, history>>

(* Allocate every buffer; those of failed got no memory from mmap nor from *)
(* malloc.  The memory is new: what was allocated before keeps its text.   *)
(* Mutant: the flag is not tested again.                                   *)
FillAgain(t, failed) ==
    LET new == {Fresh(i) : i \in Slots \ failed} IN
    /\ cmd_buffer_pool' = [i \in Slots |-> IF i \in failed THEN Null ELSE Fresh(i)]
    /\ text' = [b \in DOMAIN text \cup new |-> IF b \in new THEN NoText ELSE text[b]]
    /\ pool_initialized' = TRUE
    /\ fills' = fills + 1
    /\ AfterFill(t)
    /\ UNCHANGED <<pool_index, ticket, taken, started, lapped, crowded>>

FillPool(t, failed) == ~pool_initialized /\ FillAgain(t, failed)

(* Take the buffer whose turn it is, with the mutex, or the fallback.      *)
(* Mutants: the index leaves the ring; it is not advanced.                 *)
InUse(t) == cmd_pc[t] \in {"wipe", "run", "held"}

Take(t, next) ==
    LET b == cmd_buffer_pool[pool_index] IN
    /\ Goto(t, "take", IF b = Null THEN "wipe" ELSE "run")
    /\ taken' = [taken EXCEPT ![t] = IF b = Null THEN Fallback ELSE b]
    /\ pool_index' = next
    /\ started' = started + 1
    /\ ticket' = [ticket EXCEPT ![t] = started + 1]
    /\ lapped' = (lapped \/ \E u \in Threads : InUse(u) /\ started + 1 - ticket[u] >= NBufs)
    /\ crowded' = (crowded \/ (b = Null /\ \E u \in Threads : InUse(u) /\ taken[u] = Fallback))
    /\ UNCHANGED <<cmd_buffer_pool, pool_initialized, text, fills>>

TakeOff(t) == Take(t, pool_index + 1)
TakeStay(t) == Take(t, pool_index)
TakeBuffer(t) == Take(t, (pool_index + 1) % NBufs)

(* The fallback is wiped without the mutex.                                *)
WipeFallback(t) ==
    /\ Goto(t, "wipe", "run")
    /\ text' = [text EXCEPT ![Fallback] = NoText]
    /\ UNCHANGED <<cmd_buffer_pool, pool_index, pool_initialized,
                   ticket, taken, started, history>>

(* popen succeeds: the output is read into the buffer.  Trimmed and empty  *)
(* (some = FALSE) it is returned as NULL.                                  *)
RunCommand(t, some) ==
    /\ Goto(t, "run", IF some THEN "held" ELSE "nothing")
    /\ text' = [text EXCEPT ![taken[t]] = IF some THEN ticket[t] ELSE NoText]
    /\ UNCHANGED <<cmd_buffer_pool, pool_index, pool_initialized,
                   ticket, taken, started, history>>

PopenFails(t) ==
    /\ Goto(t, "run", "nothing")
    /\ UNCHANGED <<cmd_buffer_pool, pool_index, pool_initialized,
                   text, ticket, taken, started, history>>

(* The caller is done with the text, or got NULL.                          *)
Release(t) ==
    /\ cmd_pc[t] \in {"held", "nothing"}
    /\ cmd_pc' = [cmd_pc EXCEPT ![t] = "idle"]
    /\ ticket' = [ticket EXCEPT ![t] = NoText]
    /\ taken' = [taken EXCEPT ![t] = Null]
    /\ UNCHANGED <<cmd_buffer_pool, pool_index, pool_initialized,
                   text, started, history>>

(* The process ends, and its memory with it.                               *)
CmdExit ==
    /\ cmd_buffer_pool' = [i \in Slots |-> Null]
    /\ pool_index' = 0 /\ pool_initialized' = FALSE
    /\ text' = [b \in {Fallback} |-> NoText]
    /\ cmd_pc' = [t \in Threads |-> "idle"]
    /\ ticket' = [t \in Threads |-> NoText] /\ taken' = [t \in Threads |-> Null]
    /\ started' = 0 /\ fills' = 0 /\ lapped' = FALSE /\ crowded' = FALSE

CmdStep(t) ==
    \/ FillDone(t)
    \/ \E failed \in SUBSET MayFail : FillPool(t, failed)
    \/ TakeBuffer(t)
    \/ WipeFallback(t)
    \/ \E some \in BOOLEAN : RunCommand(t, some)
    \/ PopenFails(t)

CmdTypeOK ==
    /\ cmd_buffer_pool \in [Slots -> Nat \cup {Null}]
    /\ pool_index \in Slots
    /\ pool_initialized \in BOOLEAN /\ fills \in Nat
    /\ DOMAIN text \subseteq Nat \cup {Fallback} /\ text \in [DOMAIN text -> 0 .. MaxCommands]
    /\ cmd_pc \in [Threads -> {"idle", "fill", "fill_and_take", "take", "wipe",
                               "run", "held", "nothing"}]
    /\ ticket \in [Threads -> 0 .. MaxCommands]
    /\ taken \in [Threads -> DOMAIN text \cup {Null}]
    /\ started \in 0 .. MaxCommands
    /\ lapped \in BOOLEAN /\ crowded \in BOOLEAN

(***************************************************************************)
(* Properties.                                                             *)
(***************************************************************************)

(* The output a caller works on is the output of its own command, as long  *)
(* as no command starts while one begun NBufs commands before it is still  *)
(* run or used: the ring may be lapped, but not earlier than it is long.   *)
(* The fallback is shared: its text is the caller's own as long as no      *)
(* other command was given it at the same time (execute_cmd_fast).         *)
OwnText ==
    \A t \in Threads :
        cmd_pc[t] = "held" /\ (IF taken[t] = Fallback THEN ~crowded ELSE ~lapped)
            => text[taken[t]] = ticket[t]

(* Every buffer that was allocated is in the pool: threads that find the   *)
(* pool empty at once allocate it once (optimize_memory_pools).            *)
NoBufferLost ==
    \A b \in DOMAIN text \ {Fallback} : \E i \in Slots : cmd_buffer_pool[i] = b

(* A command has a buffer of its own out of a pool that is allocated once, *)
(* although the flag is tested without the mutex, and buffers are taken in *)
(* turn and never given back.                                              *)
OwnOutput == OwnText /\ NoBufferLost

=============================================================================
