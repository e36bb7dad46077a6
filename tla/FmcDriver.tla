----------------------------- MODULE FmcDriver ------------------------------
(***************************************************************************)
(* The NVMC driver of the parts with an FMC (fmc_drv.c): NVT_NVMC_Read,    *)
(* NVT_NVMC_Program and NVT_NVMC_Erase write a command into the registers  *)
(* of the flash memory controller, start it and poll the busy flag for a   *)
(* bounded number of rounds.  The controller works beside the processor:   *)
(* it may end a command at any time, also after the driver has given up on *)
(* it and the caller has made its next call.  The driver neither looks at  *)
(* the busy flag nor clears the fail flag before it starts a command.      *)
(***************************************************************************)
EXTENDS Integers

CONSTANTS
    Pages,      \* the pages; a unit (eight bytes) is <<page, index>>
    PageUnits,  \* units of a page
    Bits,       \* the bits of a unit; {} is erased
    Refused,    \* units the controller refuses to change (its fail flag)
    Timeout,    \* FMC_TIMEOUT_READ, _WRITE, _ERASE: rounds of polling
    MaxCalls    \* bound: calls made

Unit == Pages \X (0 .. (PageUnits - 1))
Dword == SUBSET Bits

ASSUME FmcAssumption ==
    /\ PageUnits \in Nat \ {0} /\ Refused \subseteq Unit
    /\ Timeout \in Nat /\ MaxCalls \in Nat

VARIABLES
    mem,     \* the flash memory
    reg,     \* ISPCMD, ISPADDR, MPDAT0/1 and, for what was read, ISPDAT
    run,     \* the command the controller is at, or NoCommand
    ispff,   \* ISPSTS.ISPFF
    pc,      \* where the driver is
    call,    \* the call being made, or made last, and what it returned
    timeout_cnt,
    data,    \* *data of the caller of Read
    start,   \* history: mem, and whether the controller was idle and its flag clear,
             \* when the call was made
    calls

hardware == <<mem, reg, run, ispff>>
vars == <<mem, reg, run, ispff, pc, call, timeout_cnt, data, start, calls>>

OK == 0
TIMEOUT == -2
ISPFF == -3

NoUnit == <<0, 0>>
NoCommand == [cmd |-> "none", addr |-> NoUnit, dword |-> {}]
Busy == run # NoCommand
Page(addr) == {u \in Unit : u[1] = addr[1]}

\* What a command makes of the memory.
After(c) ==
    [u \in Unit |-> IF c.cmd = "program" /\ u = c.addr THEN mem[u] \cup c.dword
                    ELSE IF c.cmd = "erase" /\ u \in Page(c.addr) THEN {}
                    ELSE mem[u]]
Fails(c) == \/ c.cmd = "program" /\ c.addr \in Refused
            \/ c.cmd = "erase" /\ Page(c.addr) \cap Refused # {}

-----------------------------------------------------------------------------
(* The driver.                                                             *)

Call ==
    /\ pc = "idle" /\ calls < MaxCalls /\ calls' = calls + 1
    /\ \E cmd \in {"read", "program", "erase"}, addr \in Unit, dword \in Dword :
          /\ cmd = "erase" => addr[2] = 0
          /\ cmd # "program" => dword = {}
          /\ call' = [cmd |-> cmd, addr |-> addr, dword |-> dword, ret |-> OK]
    /\ pc' = "cmd"
    /\ start' = [mem |-> mem, clean |-> ~Busy /\ ~ispff]
    /\ UNCHANGED <<hardware, timeout_cnt, data>>

WriteCmd ==
    /\ pc = "cmd" /\ pc' = "addr"
    /\ reg' = [reg EXCEPT !.cmd = call.cmd]
    /\ UNCHANGED <<mem, run, ispff, call, timeout_cnt, data, start, calls>>

WriteAddr ==
    /\ pc = "addr" /\ pc' = IF call.cmd = "program" THEN "data" ELSE "go"
    /\ reg' = [reg EXCEPT !.addr = call.addr]
    /\ UNCHANGED <<mem, run, ispff, call, timeout_cnt, data, start, calls>>

\* Mutant: the command is started in the step that should only write its data.
WriteDataAfterGo ==
    /\ pc = "data" /\ pc' = "wait"
    /\ reg' = [reg EXCEPT !.dword = call.dword]
    /\ run' = IF Busy THEN run ELSE [cmd |-> reg.cmd, addr |-> reg.addr, dword |-> reg.dword]
    /\ timeout_cnt' = Timeout
    /\ UNCHANGED <<mem, ispff, call, data, start, calls>>

WriteData ==
    /\ pc = "data" /\ pc' = "go"
    /\ reg' = [reg EXCEPT !.dword = call.dword]
    /\ UNCHANGED <<mem, run, ispff, call, timeout_cnt, data, start, calls>>

\* ISPTRG = ISPGO: a busy controller does not start another command, and may or
\* may not raise its fail flag.
Go ==
    /\ pc = "go" /\ pc' = "wait"
    /\ IF Busy
       THEN UNCHANGED run /\ ispff' \in {ispff, TRUE}
       ELSE /\ run' = [cmd |-> reg.cmd, addr |-> reg.addr,
                       dword |-> IF reg.cmd = "program" THEN reg.dword ELSE {}]
            /\ UNCHANGED ispff
    /\ timeout_cnt' = Timeout
    /\ UNCHANGED <<mem, reg, call, data, start, calls>>

Return(ret) == pc' = "idle" /\ call' = [call EXCEPT !.ret = ret]

\* Mutants: the count is not kept; it is not looked at; the wait gives up without
\* saying so.
PollForever ==
    /\ pc = "wait" /\ Busy
    /\ UNCHANGED vars
PollPast ==
    /\ pc = "wait" /\ Busy
    /\ timeout_cnt' = timeout_cnt - 1
    /\ UNCHANGED <<hardware, pc, call, data, start, calls>>
PollSilent ==
    /\ pc = "wait" /\ Busy
    /\ timeout_cnt' = timeout_cnt - 1
    /\ IF timeout_cnt <= 0 THEN pc' = "flag" ELSE UNCHANGED pc
    /\ UNCHANGED <<hardware, call, data, start, calls>>

Poll ==
    /\ pc = "wait" /\ Busy
    /\ timeout_cnt' = timeout_cnt - 1
    /\ IF timeout_cnt <= 0 THEN Return(TIMEOUT) ELSE UNCHANGED <<pc, call>>
    /\ UNCHANGED <<hardware, data, start, calls>>

NotBusy ==
    /\ pc = "wait" /\ ~Busy /\ pc' = "flag"
    /\ UNCHANGED <<hardware, call, timeout_cnt, data, start, calls>>

\* Mutant: the flag is not cleared.
CheckFlagKept ==
    /\ pc = "flag"
    /\ IF ispff
       THEN Return(ISPFF)
       ELSE IF call.cmd = "read" THEN pc' = "dat" /\ UNCHANGED call ELSE Return(OK)
    /\ UNCHANGED <<hardware, timeout_cnt, data, start, calls>>

CheckFlag ==
    /\ pc = "flag"
    /\ IF ispff
       THEN ispff' = FALSE /\ Return(ISPFF)
       ELSE /\ IF call.cmd = "read" THEN pc' = "dat" /\ UNCHANGED call ELSE Return(OK)
            /\ UNCHANGED ispff
    /\ UNCHANGED <<mem, reg, run, timeout_cnt, data, start, calls>>

ReadDat ==
    /\ pc = "dat" /\ Return(OK)
    /\ data' = reg.dat
    /\ UNCHANGED <<hardware, timeout_cnt, start, calls>>

Driver == \/ WriteCmd \/ WriteAddr \/ WriteData \/ Go \/ Poll \/ NotBusy
          \/ CheckFlag \/ ReadDat

-----------------------------------------------------------------------------
(* The controller ends the command it is at, and may never do.             *)

Ends ==
    /\ Busy /\ run' = NoCommand
    /\ IF Fails(run)
       THEN ispff' = TRUE /\ UNCHANGED <<mem, reg>>
       ELSE /\ mem' = After(run)
            /\ reg' = IF run.cmd = "read" THEN [reg EXCEPT !.dat = mem[run.addr]] ELSE reg
            /\ UNCHANGED ispff
    /\ UNCHANGED <<pc, call, timeout_cnt, data, start, calls>>

Init ==
    /\ mem = [u \in Unit |-> {}]
    /\ reg = [cmd |-> "none", addr |-> NoUnit, dword |-> {}, dat |-> {}]
    /\ run = NoCommand /\ ispff = FALSE
    /\ pc = "idle" /\ timeout_cnt = 0 /\ data = {} /\ calls = 0
    /\ call = [cmd |-> "none", addr |-> NoUnit, dword |-> {}, ret |-> OK]
    /\ start = [mem |-> mem, clean |-> TRUE]

Next == Call \/ Driver \/ Ends

Spec == Init /\ [][Next]_vars

\* Only the processor is sure to run on.
FairSpec == Spec /\ WF_vars(Driver)

-----------------------------------------------------------------------------
(* What the driver promises.                                               *)

Cmd == {"none", "read", "program", "erase"}

TypeOK ==
    /\ mem \in [Unit -> Dword]
    /\ reg \in [cmd : Cmd, addr : Unit \cup {NoUnit}, dword : Dword, dat : Dword]
    /\ run \in [cmd : Cmd, addr : Unit \cup {NoUnit}, dword : Dword]
    /\ ispff \in BOOLEAN
    /\ pc \in {"idle", "cmd", "addr", "data", "go", "wait", "flag", "dat"}
    /\ call \in [cmd : Cmd, addr : Unit \cup {NoUnit}, dword : Dword,
                 ret : {OK, TIMEOUT, ISPFF}]
    /\ timeout_cnt \in -1 .. Timeout
    /\ data \in Dword
    /\ start \in [mem : [Unit -> Dword], clean : BOOLEAN]
    /\ calls \in 0 .. MaxCalls

Command == [cmd |-> call.cmd, addr |-> call.addr, dword |-> call.dword]
Returned == pc = "idle" /\ call.cmd # "none"

\* A call that found the controller idle and its flag clear, and that returns OK,
\* has done exactly what it was asked: the unit programmed, the page erased, the
\* word read, and nothing else; when it returns ISPFF it has done nothing.
OKMeansDone ==
    Returned /\ start.clean =>
        /\ call.ret = OK /\ call.cmd = "read" => data = start.mem[call.addr] /\ mem = start.mem
        /\ call.ret = OK /\ call.cmd = "program" =>
              mem = [start.mem EXCEPT ![call.addr] = @ \cup call.dword]
        /\ call.ret = OK /\ call.cmd = "erase" =>
              mem = [u \in Unit |-> IF u \in Page(call.addr) THEN {} ELSE start.mem[u]]
        /\ call.ret = ISPFF => mem = start.mem

\* Such a call leaves the controller idle and its flag clear for the next one,
\* unless it gave up waiting.
CleanAgain == Returned /\ start.clean /\ call.ret # TIMEOUT => ~Busy /\ ~ispff

\* While a command is under way that the driver gave up on, another call cannot
\* change what it does: each command the controller starts is, in command,
\* address and data together, the one of the call being made.
WholeCommand == [][~Busy /\ run' # NoCommand => run' = Command]_vars

\* Every call returns, even when the controller stays busy for ever.
CallsReturn == pc # "idle" ~> pc = "idle"
=============================================================================
