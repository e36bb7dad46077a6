-------------------------- MODULE FmcDriverProofs ---------------------------
(***************************************************************************)
(* Proofs about FmcDriver, for every flash, every set of units the         *)
(* controller refuses, every bound of the polling and number of calls.     *)
(***************************************************************************)
EXTENDS FmcDriver, TLAPS

Ready == {"cmd", "addr", "data", "go"}

\* The call is one of the three, and the registers written so far are its own.
RegInv ==
    /\ pc # "idle" => call.cmd \in {"read", "program", "erase"}
    /\ call.cmd # "none" => call.addr \in Unit
    /\ call.cmd # "program" => call.dword = {}
    /\ pc \in {"addr", "data", "go"} => reg.cmd = call.cmd
    /\ pc \in {"data", "go"} => reg.addr = call.addr
    /\ pc = "go" /\ call.cmd = "program" => reg.dword = call.dword
    /\ pc = "dat" => call.cmd = "read"
    /\ pc = "wait" => timeout_cnt >= 0
    /\ Busy => run.addr \in Unit /\ run.cmd # "none"

\* What a good command leaves behind.
Asked ==
    [u \in Unit |-> IF call.cmd = "program" /\ u = call.addr THEN start.mem[u] \cup call.dword
                    ELSE IF call.cmd = "erase" /\ u \in Page(call.addr) THEN {}
                    ELSE start.mem[u]]

\* The controller has ended the command: with the fail flag and nothing changed, or
\* with all of it done.
Ended ==
    /\ run = NoCommand
    /\ \/ ispff /\ mem = start.mem
       \/ /\ ~ispff /\ mem = Asked
          /\ call.cmd = "read" => reg.dat = start.mem[call.addr]

\* A call that found the controller idle and its flag clear has it for itself: the
\* only command under way is its own, until it gives up.
OwnInv ==
    start.clean =>
        /\ pc \in Ready => run = NoCommand /\ ~ispff /\ mem = start.mem
        /\ pc = "wait" => (run = Command /\ ~ispff /\ mem = start.mem) \/ Ended
        /\ pc = "flag" => Ended
        /\ pc = "dat" => Ended /\ ~ispff
        /\ pc = "idle" /\ call.cmd # "none" /\ call.ret = OK =>
              /\ run = NoCommand /\ ~ispff /\ mem = Asked
              /\ call.cmd = "read" => data = start.mem[call.addr]
        /\ pc = "idle" /\ call.cmd # "none" /\ call.ret = ISPFF =>
              run = NoCommand /\ ~ispff /\ mem = start.mem

IInv == TypeOK /\ RegInv /\ OwnInv

-----------------------------------------------------------------------------
\* The invariant holds before the first call.
LEMMA InitEstablishes == Init => IInv
    <1> SUFFICES ASSUME Init PROVE IInv
      OBVIOUS
    <1>1. TypeOK
      <2>1. mem \in [Unit -> Dword] /\ ispff \in BOOLEAN /\ data \in Dword
        BY DEF Init, Dword
      <2>2. start \in [mem : [Unit -> Dword], clean : BOOLEAN]
        BY <2>1 DEF Init
      <2>3. /\ reg \in [cmd : Cmd, addr : Unit \cup {NoUnit}, dword : Dword, dat : Dword]
            /\ run \in [cmd : Cmd, addr : Unit \cup {NoUnit}, dword : Dword]
            /\ call \in [cmd : Cmd, addr : Unit \cup {NoUnit}, dword : Dword,
                         ret : {OK, TIMEOUT, ISPFF}]
        BY DEF Init, Dword, Cmd, NoCommand
      <2>4. timeout_cnt \in -1 .. Timeout /\ calls \in 0 .. MaxCalls
        BY FmcAssumption DEF Init
      <2> QED BY <2>1, <2>2, <2>3, <2>4 DEF Init, TypeOK
    <1>2. RegInv /\ OwnInv
      BY DEF Init, RegInv, OwnInv, Ready, Busy, NoCommand
    <1> QED BY <1>1, <1>2 DEF IInv

\* A call of NVT_NVMC_Read, _Program or _Erase begins.
LEMMA CallPreserves == ASSUME IInv, Call PROVE IInv'
    <1>1. PICK cmd \in {"read", "program", "erase"}, addr \in Unit, dword \in Dword :
              /\ cmd # "program" => dword = {}
              /\ call' = [cmd |-> cmd, addr |-> addr, dword |-> dword, ret |-> OK]
      BY DEF Call
    <1>2. /\ calls < MaxCalls /\ calls' = calls + 1 /\ pc' = "cmd"
          /\ start' = [mem |-> mem, clean |-> ~Busy /\ ~ispff]
          /\ UNCHANGED <<mem, reg, run, ispff, timeout_cnt, data>>
      BY DEF Call, hardware
    <1>3. TypeOK'
      BY <1>1, <1>2, FmcAssumption DEF IInv, TypeOK, Cmd, OK
    <1>4. RegInv'
      BY <1>1, <1>2 DEF IInv, RegInv, Busy
    <1>5. OwnInv'
      BY <1>2 DEF OwnInv, Ready, Busy
    <1> QED BY <1>3, <1>4, <1>5 DEF IInv

\* The registers of the command are written one after the other.
LEMMA RegistersPreserve == ASSUME IInv, WriteCmd \/ WriteAddr \/ WriteData PROVE IInv'
    <1>0. UNCHANGED <<mem, run, ispff, call, timeout_cnt, data, start, calls>>
      BY DEF WriteCmd, WriteAddr, WriteData
    <1>1. CASE WriteCmd
      <2>1. pc = "cmd" /\ pc' = "addr" /\ reg' = [reg EXCEPT !.cmd = call.cmd]
        BY <1>1 DEF WriteCmd
      <2>2. TypeOK'
        BY <1>0, <2>1 DEF IInv, TypeOK
      <2>3. RegInv'
        BY <1>0, <2>1 DEF IInv, TypeOK, RegInv, Busy
      <2>4. OwnInv'
        BY <1>0, <2>1 DEF IInv, OwnInv, Ready
      <2> QED BY <2>2, <2>3, <2>4 DEF IInv
    <1>2. CASE WriteAddr
      <2>1. /\ pc = "addr" /\ pc' \in {"data", "go"} /\ (pc' = "go" => call.cmd # "program")
            /\ reg' = [reg EXCEPT !.addr = call.addr]
        BY <1>2 DEF WriteAddr
      <2>2. TypeOK'
        BY <1>0, <2>1 DEF IInv, TypeOK
      <2>3. RegInv'
        BY <1>0, <2>1 DEF IInv, TypeOK, RegInv, Busy
      <2>4. OwnInv'
        BY <1>0, <2>1 DEF IInv, OwnInv, Ready
      <2> QED BY <2>2, <2>3, <2>4 DEF IInv
    <1>3. CASE WriteData
      <2>1. pc = "data" /\ pc' = "go" /\ reg' = [reg EXCEPT !.dword = call.dword]
        BY <1>3 DEF WriteData
      <2>2. TypeOK'
        BY <1>0, <2>1 DEF IInv, TypeOK
      <2>3. RegInv'
        BY <1>0, <2>1 DEF IInv, TypeOK, RegInv, Busy
      <2>4. OwnInv'
        BY <1>0, <2>1 DEF IInv, OwnInv, Ready
      <2> QED BY <2>2, <2>3, <2>4 DEF IInv
    <1> QED BY <1>1, <1>2, <1>3

\* A command that starts is the call's, in command, address and data.
LEMMA StartedCommand ==
    ASSUME IInv, Go, ~Busy
    PROVE  run' = Command /\ run'.addr \in Unit /\ run'.cmd # "none"
    <1>1. /\ pc = "go"
          /\ run' = [cmd |-> reg.cmd, addr |-> reg.addr,
                     dword |-> IF reg.cmd = "program" THEN reg.dword ELSE {}]
      BY DEF Go
    <1>2. /\ reg.cmd = call.cmd /\ reg.addr = call.addr
          /\ call.cmd \in {"read", "program", "erase"} /\ call.addr \in Unit
          /\ IF call.cmd = "program" THEN reg.dword = call.dword ELSE call.dword = {}
      BY <1>1 DEF IInv, RegInv
    <1> QED BY <1>1, <1>2 DEF Command

\* ISPGO.
LEMMA GoPreserves == ASSUME IInv, Go PROVE IInv'
    <1>0. /\ pc = "go" /\ pc' = "wait" /\ timeout_cnt' = Timeout
          /\ UNCHANGED <<mem, reg, call, data, start, calls>>
      BY DEF Go
    <1>1. CASE Busy
      <2>1. UNCHANGED run /\ ispff' \in BOOLEAN
        <3>1. UNCHANGED run /\ ispff' \in {ispff, TRUE} /\ ispff \in BOOLEAN
          BY <1>1 DEF Go, IInv, TypeOK
        <3> QED BY <3>1
      <2>2. TypeOK'
        BY <1>0, <2>1, FmcAssumption DEF IInv, TypeOK
      <2>3. RegInv'
        BY <1>0, <2>1, FmcAssumption DEF IInv, RegInv, Busy
      <2>4. OwnInv'
        BY <1>0, <1>1 DEF IInv, OwnInv, Ready, Busy
      <2> QED BY <2>2, <2>3, <2>4 DEF IInv
    <1>2. CASE ~Busy
      <2>1. UNCHANGED ispff /\ run' = Command /\ run'.addr \in Unit /\ run'.cmd # "none"
        BY <1>2, StartedCommand DEF Go
      <2>2. TypeOK'
        BY <1>0, <2>1, FmcAssumption DEF IInv, TypeOK, Command
      <2>3. RegInv'
        BY <1>0, <2>1, FmcAssumption DEF IInv, RegInv, Busy
      <2>4. Command' = Command
        BY <1>0 DEF Command
      <2>5. OwnInv'
        BY <1>0, <2>1, <2>4 DEF IInv, OwnInv, Ready
      <2> QED BY <2>2, <2>3, <2>5 DEF IInv
    <1> QED BY <1>1, <1>2

\* The polling, to its end or to the end of the driver's patience.
LEMMA PollPreserves == ASSUME IInv, Poll \/ NotBusy PROVE IInv'
    <1>0. UNCHANGED <<mem, reg, run, ispff, data, start, calls>>
      BY DEF Poll, NotBusy, hardware
    <1>1. CASE Poll
      <2>1. /\ pc = "wait" /\ Busy /\ timeout_cnt' = timeout_cnt - 1
            /\ \/ timeout_cnt <= 0 /\ pc' = "idle" /\ call' = [call EXCEPT !.ret = TIMEOUT]
               \/ timeout_cnt > 0 /\ UNCHANGED <<pc, call>>
        BY <1>1, FmcAssumption DEF Poll, Return, IInv, TypeOK
      <2>2. timeout_cnt \in 0 .. Timeout /\ Timeout \in Nat
        BY <2>1, FmcAssumption DEF IInv, TypeOK, RegInv
      <2>3. TypeOK'
        BY <1>0, <2>1, <2>2 DEF IInv, TypeOK
      <2>4. RegInv'
        BY <1>0, <2>1, <2>2 DEF IInv, TypeOK, RegInv, Busy
      <2>5. OwnInv'
        <3>1. CASE pc' = "idle"
          <4>1. call'.ret = TIMEOUT
            BY <2>1, <3>1 DEF IInv, TypeOK
          <4> QED BY <3>1, <4>1 DEF OwnInv, Ready, OK, TIMEOUT, ISPFF
        <3>2. CASE UNCHANGED <<pc, call>>
          BY <1>0, <3>2 DEF IInv, OwnInv, Ended, Asked, Command, Page
        <3> QED BY <2>1, <3>1, <3>2
      <2> QED BY <2>3, <2>4, <2>5 DEF IInv
    <1>2. CASE NotBusy
      <2>1. pc = "wait" /\ ~Busy /\ pc' = "flag" /\ UNCHANGED <<call, timeout_cnt>>
        BY <1>2 DEF NotBusy
      <2>2. TypeOK'
        BY <1>0, <2>1 DEF IInv, TypeOK
      <2>3. RegInv'
        BY <1>0, <2>1 DEF IInv, RegInv, Busy
      <2>4. OwnInv'
        <3> SUFFICES ASSUME start.clean PROVE Ended
          BY <1>0, <2>1 DEF OwnInv, Ready, Ended, Asked, Page
        <3>1. run # Command
          BY <2>1 DEF IInv, RegInv, Command, Busy, NoCommand
        <3> QED BY <2>1, <3>1 DEF IInv, OwnInv
      <2> QED BY <2>2, <2>3, <2>4 DEF IInv
    <1> QED BY <1>1, <1>2

\* What the call returns, and the word a read takes with it.
LEMMA ReturnPreserves == ASSUME IInv, CheckFlag \/ ReadDat PROVE IInv'
    <1>0. UNCHANGED <<mem, reg, run, timeout_cnt, start, calls>>
      BY DEF CheckFlag, ReadDat, hardware
    <1>1. CASE CheckFlag /\ ispff
      <2>1. /\ pc = "flag" /\ ispff' = FALSE /\ UNCHANGED data
            /\ pc' = "idle" /\ call' = [call EXCEPT !.ret = ISPFF]
        BY <1>1 DEF CheckFlag, Return
      <2>2. TypeOK'
        BY <1>0, <2>1 DEF IInv, TypeOK
      <2>3. RegInv'
        BY <1>0, <2>1 DEF IInv, TypeOK, RegInv, Busy
      <2>4. OwnInv'
        <3>1. call'.ret = ISPFF
          BY <2>1 DEF IInv, TypeOK
        <3> QED BY <1>0, <1>1, <2>1, <3>1 DEF IInv, OwnInv, Ready, Ended, OK, ISPFF
      <2> QED BY <2>2, <2>3, <2>4 DEF IInv
    <1>2. CASE CheckFlag /\ ~ispff /\ call.cmd = "read"
      <2>1. pc = "flag" /\ pc' = "dat" /\ UNCHANGED <<call, data, ispff>>
        BY <1>2 DEF CheckFlag
      <2>2. TypeOK'
        BY <1>0, <2>1 DEF IInv, TypeOK
      <2>3. RegInv'
        BY <1>0, <1>2, <2>1 DEF IInv, RegInv, Busy
      <2>4. OwnInv'
        BY <1>0, <1>2, <2>1 DEF IInv, OwnInv, Ready, Ended, Asked, Page
      <2> QED BY <2>2, <2>3, <2>4 DEF IInv
    <1>3. CASE \/ CheckFlag /\ ~ispff /\ call.cmd # "read"
               \/ ReadDat
      <2>1. /\ pc' = "idle" /\ call' = [call EXCEPT !.ret = OK] /\ UNCHANGED ispff
            /\ \/ pc = "flag" /\ ~ispff /\ call.cmd # "read" /\ UNCHANGED data
               \/ pc = "dat" /\ data' = reg.dat
        BY <1>3 DEF CheckFlag, ReadDat, Return, hardware
      <2>2. TypeOK'
        BY <1>0, <2>1 DEF IInv, TypeOK
      <2>3. call'.cmd = call.cmd /\ call'.addr = call.addr /\ call'.dword = call.dword
            /\ call'.ret = OK
        BY <2>1 DEF IInv, TypeOK
      <2>4. RegInv'
        BY <1>0, <2>1, <2>3 DEF IInv, RegInv, Busy
      <2>5. OwnInv'
        <3>1. Asked' = Asked
          BY <1>0, <2>3 DEF Asked, Page
        <3> SUFFICES ASSUME start.clean
                     PROVE  /\ run = NoCommand /\ ~ispff /\ mem = Asked
                            /\ call.cmd = "read" => data' = start.mem[call.addr]
          BY <1>0, <2>1, <2>3, <3>1 DEF OwnInv, Ready, OK, ISPFF
        <3> QED BY <2>1 DEF IInv, OwnInv, Ended
      <2> QED BY <2>2, <2>4, <2>5 DEF IInv
    <1> QED BY <1>1, <1>2, <1>3

\* The controller ends a command, this call's or a late one.
LEMMA EndsPreserves == ASSUME IInv, Ends PROVE IInv'
    <1>0. Busy /\ run' = NoCommand /\ UNCHANGED <<pc, call, timeout_cnt, data, start, calls>>
      BY DEF Ends
    <1>1. \/ Fails(run) /\ ispff' = TRUE /\ UNCHANGED <<mem, reg>>
          \/ /\ mem' = After(run) /\ UNCHANGED ispff
             /\ reg' = IF run.cmd = "read" THEN [reg EXCEPT !.dat = mem[run.addr]] ELSE reg
      BY DEF Ends
    <1>2. run.addr \in Unit /\ run.dword \in Dword /\ mem \in [Unit -> Dword]
      BY <1>0 DEF IInv, RegInv, TypeOK
    <1>3. After(run) \in [Unit -> Dword]
      BY <1>2 DEF After, Dword
    <1>4. TypeOK'
      <2>1. mem' \in [Unit -> Dword]
        BY <1>1, <1>2, <1>3
      <2>2. reg' \in [cmd : Cmd, addr : Unit \cup {NoUnit}, dword : Dword, dat : Dword]
        BY <1>1, <1>2 DEF IInv, TypeOK
      <2>3. run' \in [cmd : Cmd, addr : Unit \cup {NoUnit}, dword : Dword] /\ ispff' \in BOOLEAN
        BY <1>0, <1>1 DEF IInv, TypeOK, NoCommand, Cmd, Dword
      <2> QED BY <1>0, <2>1, <2>2, <2>3 DEF IInv, TypeOK
    <1>5. reg'.cmd = reg.cmd /\ reg'.addr = reg.addr /\ reg'.dword = reg.dword
      BY <1>1 DEF IInv, TypeOK
    <1>6. RegInv'
      BY <1>0, <1>5 DEF IInv, RegInv, Busy
    <1>7. OwnInv'
      <2>1. Asked' = Asked /\ Command' = Command
        BY <1>0 DEF Asked, Page, Command
      <2> SUFFICES ASSUME start.clean PROVE OwnInv'
        BY <1>0 DEF OwnInv
      <2>2. run # NoCommand /\ pc \notin Ready /\ ~Ended
        BY <1>0 DEF IInv, OwnInv, Busy, Ended
      <2>3. pc \in {"idle", "wait"}
        BY <2>2 DEF IInv, OwnInv, TypeOK, Ready
      <2>4. CASE pc = "idle"
        BY <1>0, <2>2, <2>4 DEF IInv, OwnInv, Ready
      <2>5. CASE pc = "wait"
        <3>1. run = Command /\ ~ispff /\ mem = start.mem
          BY <2>2, <2>5 DEF IInv, OwnInv
        <3>2. After(run) = Asked
          BY <3>1 DEF After, Asked, Command, Page
        <3>3. run.cmd = call.cmd /\ run.addr = call.addr
          BY <3>1 DEF Command
        <3>4. Ended'
          <4>1. CASE ispff' = TRUE /\ UNCHANGED mem
            BY <1>0, <3>1, <4>1 DEF Ended
          <4>2. CASE mem' = After(run) /\ UNCHANGED ispff
                     /\ reg' = IF run.cmd = "read" THEN [reg EXCEPT !.dat = mem[run.addr]] ELSE reg
            <5>1. call.cmd = "read" => reg'.dat = start.mem[call.addr]
              BY <3>1, <3>3, <4>2 DEF IInv, TypeOK
            <5> QED BY <1>0, <2>1, <3>1, <3>2, <4>2, <5>1 DEF Ended
          <4> QED BY <1>1, <4>1, <4>2
        <3> QED BY <1>0, <2>5, <3>4 DEF OwnInv, Ready
      <2> QED BY <2>3, <2>4, <2>5
    <1> QED BY <1>4, <1>6, <1>7 DEF IInv

\* Every step of the caller, the driver or the controller keeps the invariant.
LEMMA StepPreserves == IInv /\ [Next]_vars => IInv'
    <1> SUFFICES ASSUME IInv, [Next]_vars PROVE IInv'
      OBVIOUS
    <1>1. CASE UNCHANGED vars
      BY <1>1 DEF vars, IInv, TypeOK, RegInv, OwnInv, Busy, Ended, Asked, Command, Page
    <1> QED BY <1>1, CallPreserves, RegistersPreserve, GoPreserves, PollPreserves,
               ReturnPreserves, EndsPreserves DEF Next, Driver

-----------------------------------------------------------------------------
(* The theorems.                                                           *)

\* The inductive invariant holds in every reachable state.
THEOREM Invariance == Spec => []IInv
    BY InitEstablishes, StepPreserves, PTL DEF Spec

\* Type correctness of the driver and the controller: in particular timeout_cnt
\* stops at -1.
THEOREM TypeCorrect == Spec => []TypeOK
    <1>1. IInv => TypeOK
      BY DEF IInv
    <1> QED BY <1>1, Invariance, PTL

\* The controller never starts a command that mixes the registers of two calls,
\* however late it was with an earlier one.
THEOREM CommandsAreWhole == Spec => WholeCommand
    <1> DEFINE Whole == ~Busy /\ run' # NoCommand => run' = Command
    <1>1. ASSUME IInv, [Next]_vars PROVE [Whole]_vars
      <2>1. CASE Go
        BY <1>1, <2>1, StartedCommand
      <2>2. CASE Next /\ ~Go
        BY <2>2 DEF Next, Driver, Call, WriteCmd, WriteAddr, WriteData, Poll, NotBusy, CheckFlag,
                    ReadDat, Ends, hardware, Busy
      <2> QED BY <1>1, <2>1, <2>2
    <1> QED BY <1>1, Invariance, PTL DEF Spec, WholeCommand

\* A call on an idle controller with a clear flag that returns OK has done what it
\* was asked and nothing else, one that returns ISPFF has done nothing.
THEOREM OKIsTrue == Spec => []OKMeansDone
    <1>1. IInv => OKMeansDone
      <2> SUFFICES ASSUME IInv, Returned, start.clean PROVE OKMeansDone
        BY DEF OKMeansDone
      <2>1. start.mem \in [Unit -> Dword] /\ call.addr \in Unit
        BY DEF IInv, TypeOK, RegInv, Returned
      <2>2. /\ call.ret = OK => mem = Asked /\ (call.cmd = "read" => data = start.mem[call.addr])
            /\ call.ret = ISPFF => mem = start.mem
        BY DEF IInv, OwnInv, Returned
      <2>3. call.cmd = "read" => Asked = start.mem
        BY <2>1 DEF Asked
      <2>4. call.cmd = "program" => Asked = [start.mem EXCEPT ![call.addr] = @ \cup call.dword]
        BY <2>1 DEF Asked
      <2>5. call.cmd = "erase" =>
              Asked = [u \in Unit |-> IF u \in Page(call.addr) THEN {} ELSE start.mem[u]]
        BY DEF Asked
      <2> QED BY <2>2, <2>3, <2>4, <2>5 DEF OKMeansDone
    <1> QED BY <1>1, Invariance, PTL

\* Such a call leaves the next one an idle controller and a clear flag, unless it
\* gave up waiting.
THEOREM CallsLeaveItClean == Spec => []CleanAgain
    <1>1. IInv => CleanAgain
      BY DEF IInv, TypeOK, OwnInv, CleanAgain, Returned, Busy
    <1> QED BY <1>1, Invariance, PTL
=============================================================================
