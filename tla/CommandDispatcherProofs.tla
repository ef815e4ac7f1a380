----------------------- MODULE CommandDispatcherProofs ------------------------
(***************************************************************************)
(* The whole program is a client of the router and nothing else: each of   *)
(* its steps is a step of ZteF670LRouterClient or leaves it alone, so what *)
(* is proved of the client for every caller holds of this one.  And what   *)
(* the input does to the loop: for every set of lines.                     *)
(***************************************************************************)
EXTENDS CommandDispatcher, ZteF670LRouterClientProofs

-----------------------------------------------------------------------------
(* The program as a caller of the client *)

LEMMA DispatchStep ==
  ASSUME NEW option, Dispatch(option)
  PROVE  UserCall \/ UNCHANGED vars
<1>1. CASE option = "2"
  BY <1>1 DEF Dispatch, Calls, UserCall
<1>2. CASE option = "5"
  BY <1>2 DEF Dispatch, Refresh, Calls, UserCall
<1>3. CASE option = "9"
  BY <1>3 DEF Dispatch, Calls, UserCall
<1> QED
  BY <1>1, <1>2, <1>3 DEF Dispatch, Goes

LEMMA ProgramStep == [ProgramNext]_programVars => [Next]_vars
<1> SUFFICES ASSUME [ProgramNext]_programVars PROVE [Next]_vars
  OBVIOUS
<1>1. CASE UserChooses
  BY <1>1, DispatchStep DEF UserChooses, MenuReads, Next
<1>2. CASE NobodyChooses
  BY <1>2, DispatchStep DEF NobodyChooses, MenuReads, Next
<1>3. CASE ReadUsername \/ ReadQuery \/ Pause \/ Gone
  BY <1>3 DEF ReadUsername, ReadQuery, Pause, Gone, programVars
<1>4. CASE ReadPassword
  <2>1. PICK value \in {NoText, "login"} : Login(given /\ value # NoText)
    BY <1>4 DEF ReadPassword
  <2>2. CASE given /\ value # NoText
    <3>1. Login(TRUE)
      BY <2>1, <2>2 DEF Login
    <3> QED
      BY <3>1 DEF Next, UserCall
  <2>3. CASE ~(given /\ value # NoText)
    <3>1. Login(FALSE)
      BY <2>1, <2>3 DEF Login
    <3> QED
      BY <3>1 DEF Next, UserCall
  <2> QED
    BY <2>2, <2>3
<1>5. CASE ReadMac
  BY <1>5 DEF ReadMac, Next, UserCall
<1>6. CASE RouterReplies
  BY <1>6 DEF RouterReplies, Next
<1>7. CASE UNCHANGED programVars
  BY <1>7 DEF programVars
<1> QED
  BY <1>1, <1>2, <1>3, <1>4, <1>5, <1>6, <1>7 DEF ProgramNext, Reads

(***************************************************************************)
(* No menu command, whatever is typed and wherever the input ends, makes   *)
(* the program ask for a page of the management without a session.         *)
(***************************************************************************)
THEOREM ProgramRequestsAreGated == ProgramSpec => []GatedRequests
<1>1. ProgramInit => SessionInv
  BY SessionInit DEF ProgramInit
<1>2. SessionInv /\ [ProgramNext]_programVars => SessionInv'
  BY ProgramStep, SessionNext
<1>3. SessionInv => GatedRequests
  BY DEF SessionInv, SessionOfStep, GatedRequests, Pending, Waiting
<1> QED
  BY <1>1, <1>2, <1>3, PTL DEF ProgramSpec

LEMMA ProgramChanges == ProgramSpec => []ChangeInv
<1>1. ProgramInit => TypeOK /\ SessionInv /\ ChangeInv
  BY TypeInit, SessionInit, ChangeInit DEF ProgramInit
<1>2. TypeOK /\ SessionInv /\ ChangeInv /\ [ProgramNext]_programVars
        => (TypeOK /\ SessionInv /\ ChangeInv)'
  BY ProgramStep, TypeNext, SessionNext, ChangeNext
<1> QED
  BY <1>1, <1>2, PTL DEF ProgramSpec

(***************************************************************************)
(* A change the program posts was made from the page the running command   *)
(* has read.                                                               *)
(***************************************************************************)
THEOREM ProgramChangesComeFromThePage == ProgramSpec => []PostedFromThisPage
BY ProgramChanges, PostedIsOfThePage, PTL DEF ChangeInv

(***************************************************************************)
(* "[SUCCESS]" after a block or an unblock is the router's answer to a     *)
(* change posted for the address typed.                                    *)
(***************************************************************************)
THEOREM ProgramSuccessIsAnswered == ProgramSpec => []SuccessWasAnswered
BY ProgramChanges, PTL DEF ChangeInv

(***************************************************************************)
(* The program as a whole is an implementation of RouterSession: whatever  *)
(* is typed, no command reaches the router without a session, and what a   *)
(* command is told to have succeeded was posted in one.                    *)
(***************************************************************************)
THEOREM ProgramRefinesRouterSession == ProgramSpec => ImplementsRouterSession
<1>1. ProgramInit => TypeOK /\ SessionInv /\ Abstract!AbstractInit
  BY TypeInit, SessionInit, AbstractInitHolds DEF ProgramInit
<1>2. TypeOK /\ SessionInv /\ [ProgramNext]_programVars => (TypeOK /\ SessionInv)'
  BY ProgramStep, TypeNext, SessionNext
<1>3. TypeOK /\ SessionInv /\ [ProgramNext]_programVars
        => [Abstract!AbstractNext]_(Abstract!abstractVars)
  BY ProgramStep, RefinementStep
<1> QED
  BY <1>1, <1>2, <1>3, PTL DEF ProgramSpec, ImplementsRouterSession, Abstract!AbstractSpec

-----------------------------------------------------------------------------
(* The input *)

\* At a prompt no request is pending.
Quiet == at # "running" => pc \notin Waiting

LEMMA DispatchQuiet ==
  ASSUME Quiet, at # "running", NEW option, Dispatch(option)
  PROVE  Quiet'
<1>1. CASE at' = IF pc' = "idle" THEN "pause" ELSE "running"
  BY <1>1 DEF Quiet, Waiting
<1>2. CASE UNCHANGED vars
  BY <1>2 DEF Quiet, vars
<1> QED
  BY <1>1, <1>2 DEF Dispatch, Calls, Refresh, Goes

LEMMA QuietHolds == Quiet /\ [ProgramNext]_programVars => Quiet'
<1> SUFFICES ASSUME Quiet, [ProgramNext]_programVars PROVE Quiet'
  OBVIOUS
<1>1. CASE UserChooses \/ NobodyChooses
  BY <1>1, DispatchQuiet DEF UserChooses, NobodyChooses, MenuReads
<1>2. CASE ReadUsername \/ ReadQuery \/ Pause \/ Gone \/ UNCHANGED programVars
  BY <1>2 DEF ReadUsername, ReadQuery, Pause, Gone, programVars, consoleVars, vars, Quiet
<1>3. CASE at' = IF pc' = "idle" THEN "pause" ELSE "running"
  BY <1>3 DEF Quiet, Waiting
<1> QED
  BY <1>1, <1>2, <1>3 DEF ProgramNext, Reads, ReadPassword, ReadMac, ReadsLine, RouterReplies

\* What a step may do when nothing can be read and no request is pending.
DeadInputStep ==
  cin # "open" /\ pc \notin Waiting => cin' # "open" /\ pc' \notin Waiting

LEMMA DeadInputStepHolds == [ProgramNext]_programVars => DeadInputStep
<1> SUFFICES ASSUME [ProgramNext]_programVars, cin # "open", pc \notin Waiting
             PROVE  cin' # "open" /\ pc' \notin Waiting
  BY DEF DeadInputStep
<1>1. CASE NobodyChooses
  <2>1. Dispatch("-1") /\ UNCHANGED cin
    BY <1>1 DEF NobodyChooses, MenuReads, Converted, Unread, Numbers, Options
  <2> QED
    BY <2>1 DEF Dispatch, Goes, vars
<1>2. CASE ReadUsername \/ ReadQuery \/ Pause
  BY <1>2 DEF ReadUsername, ReadQuery, Pause, ReadsLine, vars
<1>3. CASE ReadPassword
  <2>1. Login(FALSE) /\ cin' # "open"
    BY <1>3 DEF ReadPassword, ReadsLine, Login
  <2> QED
    BY <2>1 DEF Login, Call, Refuse, Return, Waiting
<1>4. CASE ReadMac
  <2>1. (BlockDevice(NoText) \/ UnblockDevice(NoText)) /\ cin' # "open"
    BY <1>4 DEF ReadMac, ReadsLine
  <2> QED
    BY <2>1 DEF BlockDevice, UnblockDevice, CallAcl, Call, Refuse, Return, Waiting
<1>5. CASE Gone \/ UNCHANGED programVars
  BY <1>5 DEF Gone, programVars, consoleVars, vars
<1>6. ~UserChooses
  BY DEF UserChooses
<1>7. ~RouterReplies
  BY DEF RouterReplies, Answered, Reply, LoginPageReply, LoginPostReply, LoginFollowReply,
         LogoffReply, InfoReply, DhcpReply, BlockPageReply, BlockPostReply, UnblockPageReply,
         UnblockPostReply, AclReply, Absorb, Waiting
<1> QED
  BY <1>1, <1>2, <1>3, <1>4, <1>5, <1>6, <1>7 DEF ProgramNext, Reads

(***************************************************************************)
(* Once nothing can be read any more and no command is running, the router *)
(* is asked for nothing, whatever was typed before and wherever the input  *)
(* ended or failed.                                                        *)
(***************************************************************************)
THEOREM DeadInputSendsNothing == ProgramSpec => EndedInputSendsNothing
<1>1. [ProgramNext]_programVars => [DeadInputStep]_programVars
  BY DeadInputStepHolds
<1>2. ProgramSpec => [][DeadInputStep]_programVars
  BY <1>1, PTL DEF ProgramSpec
<1> QED
  BY <1>2 DEF EndedInputSendsNothing, DeadInputStep

-----------------------------------------------------------------------------
(* The cache *)

\* The DHCP page is asked for by a refresh.
RefreshAsks == pc = "dhcp" => choice = "5"

\* No answer is followed by a request for the DHCP page.
LEMMA NoReplyAsksForDevices == Answered => pc' # "dhcp"
<1> SUFFICES ASSUME NEW r \in Responses, Reply(r) PROVE pc' # "dhcp"
  BY DEF Answered
<1>1. CASE LoginPageReply(r) \/ LoginPostReply(r) \/ LoginFollowReply(r)
  BY <1>1 DEF LoginPageReply, LoginPostReply, LoginFollowReply, Return, HttpPost, HttpGet
<1>2. CASE LogoffReply(r) \/ InfoReply(r) \/ DhcpReply(r)
  BY <1>2 DEF LogoffReply, InfoReply, DhcpReply, Return
<1>3. CASE BlockPageReply(r) \/ UnblockPageReply(r)
  BY <1>3 DEF BlockPageReply, UnblockPageReply, Return, HttpPost
<1>4. CASE BlockPostReply(r) \/ UnblockPostReply(r)
  BY <1>4 DEF BlockPostReply, UnblockPostReply, AclReply, Return
<1> QED
  BY <1>1, <1>2, <1>3, <1>4 DEF Reply

\* A line at the menu: the DHCP page is asked for with option 5 alone, and
\* the cache becomes empty or stays, for there is no answer yet.
LEMMA DispatchCache ==
  ASSUME Quiet, at # "running", NEW option, Dispatch(option)
  PROVE  /\ pc' = "dhcp" => option = "5"
         /\ devices' # devices => option = "5" /\ devices' = << >>
<1>1. pc # "dhcp"
  BY DEF Quiet, Waiting
<1>2. CASE option = "2" /\ Calls(RouterInfo) /\ UNCHANGED devices
  BY <1>2 DEF Calls, RouterInfo, Call, HttpGet, Refuse, Return
<1>3. CASE option = "9" /\ Calls(Logout) /\ UNCHANGED devices
  BY <1>3 DEF Calls, Logout, Call, HttpGet, Return
<1>4. CASE option = "5" /\ Refresh
  <2>1. devices' = IF pc' = "idle" THEN result'.devices ELSE devices
    BY <1>4 DEF Refresh
  <2>2. pc' = "idle" => result'.devices = << >>
    BY <1>4 DEF Refresh, Calls, ConnectedDevices, Call, HttpGet, Refuse, Return
  <2> QED
    BY <1>4, <2>1, <2>2
<1>5. CASE UNCHANGED <<vars, devices>>
  BY <1>1, <1>5 DEF vars
<1> QED
  BY <1>2, <1>3, <1>4, <1>5 DEF Dispatch, Goes

LEMMA RefreshAsksNext ==
  ASSUME Quiet, RefreshAsks, [ProgramNext]_programVars PROVE RefreshAsks'
<1>1. CASE UserChooses \/ NobodyChooses
  BY <1>1, DispatchCache DEF UserChooses, NobodyChooses, MenuReads, RefreshAsks
<1>2. CASE ReadUsername \/ ReadQuery \/ Pause \/ Gone \/ UNCHANGED programVars
  BY <1>2 DEF ReadUsername, ReadQuery, Pause, Gone, programVars, consoleVars, vars, RefreshAsks
<1>3. CASE ReadPassword
  BY <1>3 DEF ReadPassword, Login, Call, HttpGet, Refuse, Return, RefreshAsks
<1>4. CASE ReadMac
  <2>1. PICK m \in Mac : BlockDevice(m) \/ UnblockDevice(m)
    BY <1>4 DEF ReadMac
  <2>2. pc' # "dhcp"
    BY <2>1 DEF BlockDevice, UnblockDevice, CallAcl, Call, HttpGet, Refuse, Return
  <2> QED
    BY <2>2 DEF RefreshAsks
<1>5. CASE RouterReplies
  BY <1>5, NoReplyAsksForDevices DEF RouterReplies, RefreshAsks
<1> QED
  BY <1>1, <1>2, <1>3, <1>4, <1>5 DEF ProgramNext, Reads

\* What a step may do to the cache.
CacheStep ==
  devices' # devices =>
    /\ choice' = "5"
    /\ devices' # << >> => /\ devices' = resp'.page.leases
                          /\ loggedIn' /\ ~ShowsLogin(resp') /\ ~resp'.error

LEMMA CacheStepHolds ==
  ASSUME Quiet, RefreshAsks, [ProgramNext]_programVars PROVE CacheStep
<1>1. CASE UserChooses \/ NobodyChooses
  BY <1>1, DispatchCache DEF UserChooses, NobodyChooses, MenuReads, CacheStep
<1>2. CASE RouterReplies
  <2> SUFFICES ASSUME devices' # devices PROVE CacheStep
    BY DEF CacheStep
  <2>1. /\ pc = "dhcp" /\ pc' = "idle" /\ devices' = result'.devices
        /\ choice' = choice /\ choice = "5"
    BY <1>2 DEF RouterReplies, RefreshAsks
  <2>2. PICK r \in Responses : DhcpReply(r)
    BY <1>2, <2>1 DEF RouterReplies, Answered, Reply, LoginPageReply, LoginPostReply,
         LoginFollowReply, LogoffReply, InfoReply, BlockPageReply, BlockPostReply,
         UnblockPageReply, UnblockPostReply, AclReply, Absorb
  <2>3. /\ resp' = r /\ loggedIn' = InSession(r)
        /\ result'.devices = IF Readable(r) THEN r.page.leases ELSE << >>
    BY <2>1, <2>2 DEF DhcpReply, Absorb, Return
  <2>4. CASE Readable(r)
    <3>1. InSession(r) /\ ~ShowsLogin(r) /\ ~r.error
      BY <2>4 DEF Readable, InSession
    <3> QED
      BY <2>1, <2>3, <2>4, <3>1 DEF CacheStep
  <2>5. CASE ~Readable(r)
    BY <2>1, <2>3, <2>5 DEF CacheStep
  <2> QED
    BY <2>4, <2>5
<1> QED
  BY <1>1, <1>2 DEF ProgramNext, Reads, ReadUsername, ReadPassword, ReadQuery, ReadMac, Pause,
                    Gone, programVars, consoleVars, CacheStep

(***************************************************************************)
(* The cache changes in a refresh only: it becomes the table of an answer  *)
(* in session, or is emptied.                                              *)
(***************************************************************************)
THEOREM CacheChangesByRefresh == ProgramSpec => CacheChange
<1>1. ProgramInit => Quiet /\ RefreshAsks
  BY DEF ProgramInit, Init, Quiet, Waiting, RefreshAsks
<1>2. Quiet /\ RefreshAsks /\ [ProgramNext]_programVars => Quiet' /\ RefreshAsks'
  BY QuietHolds, RefreshAsksNext
<1>3. Quiet /\ RefreshAsks /\ [ProgramNext]_programVars => [CacheStep]_programVars
  BY CacheStepHolds
<1>4. ProgramSpec => [][CacheStep]_programVars
  BY <1>1, <1>2, <1>3, PTL DEF ProgramSpec
<1> QED
  BY <1>4 DEF CacheChange, CacheStep

-----------------------------------------------------------------------------
(* That commands end *)

\* A command that runs waits for the router, or has taken the process down.
RunningWaits == at = "running" => pc \in Waiting \cup {"aborted"}

\* Where a call of the client may leave it.
LEMMA UserCallLeaves == UserCall => pc' \in Waiting \cup {"idle"}
<1> SUFFICES ASSUME UserCall PROVE pc' \in Waiting \cup {"idle"}
  OBVIOUS
<1> QED
  BY UserCallShape DEF Call, HttpGet, Refuse, Return

LEMMA AnsweredLeaves == Answered => pc' \in Waiting \cup {"idle", "aborted"}
<1> SUFFICES ASSUME NEW r \in Responses, Reply(r)
             PROVE  pc' \in Waiting \cup {"idle", "aborted"}
  BY DEF Answered
<1>1. CASE LoginPageReply(r) \/ LoginPostReply(r) \/ LoginFollowReply(r)
  BY <1>1 DEF LoginPageReply, LoginPostReply, LoginFollowReply, Return, HttpPost, HttpGet, Waiting
<1>2. CASE LogoffReply(r) \/ InfoReply(r) \/ DhcpReply(r)
  BY <1>2 DEF LogoffReply, InfoReply, DhcpReply, Return
<1>3. CASE BlockPageReply(r) \/ UnblockPageReply(r)
  BY <1>3 DEF BlockPageReply, UnblockPageReply, Return, HttpPost, Waiting
<1>4. CASE BlockPostReply(r) \/ UnblockPostReply(r)
  BY <1>4 DEF BlockPostReply, UnblockPostReply, AclReply, Return
<1> QED
  BY <1>1, <1>2, <1>3, <1>4 DEF Reply

LEMMA DispatchRuns ==
  ASSUME at # "running", NEW option, Dispatch(option)
  PROVE  RunningWaits'
<1>1. CASE UserCall /\ at' = IF pc' = "idle" THEN "pause" ELSE "running"
  BY <1>1, UserCallLeaves DEF RunningWaits
<1>2. CASE at' # "running"
  BY <1>2 DEF RunningWaits
<1> QED
  BY <1>1, <1>2 DEF Dispatch, Calls, Refresh, Goes, UserCall

LEMMA RunningWaitsNext ==
  ASSUME RunningWaits, [ProgramNext]_programVars PROVE RunningWaits'
<1>1. CASE UserChooses \/ NobodyChooses
  BY <1>1, DispatchRuns DEF UserChooses, NobodyChooses, MenuReads
<1>2. CASE ReadUsername \/ ReadQuery \/ Pause
  BY <1>2 DEF ReadUsername, ReadQuery, Pause, ReadsLine, RunningWaits
<1>3. CASE Gone \/ UNCHANGED programVars
  BY <1>3 DEF Gone, programVars, consoleVars, vars, RunningWaits
<1>4. CASE ReadPassword \/ ReadMac
  <2>1. at' = IF pc' = "idle" THEN "pause" ELSE "running"
    BY <1>4 DEF ReadPassword, ReadMac, ReadsLine
  <2>2. pc' \in Waiting \cup {"idle"}
    <3>1. CASE ReadPassword
      BY <3>1 DEF ReadPassword, Login, Call, HttpGet, Refuse, Return, Waiting
    <3>2. CASE ReadMac
      BY <3>2, UserCallLeaves DEF ReadMac, UserCall
    <3> QED
      BY <1>4, <3>1, <3>2
  <2> QED
    BY <2>1, <2>2 DEF RunningWaits
<1>5. CASE RouterReplies
  BY <1>5, AnsweredLeaves DEF RouterReplies, RunningWaits
<1> QED
  BY <1>1, <1>2, <1>3, <1>4, <1>5 DEF ProgramNext, Reads

LEMMA RunningStep ==
  ASSUME RunningWaits, [ProgramNext]_programVars, at = "running", ~Over, ~UNCHANGED programVars
  PROVE  AnswersAwaited(pc') < AnswersAwaited(pc) /\ (pc' = "idle" => at' = "pause")
<1>1. RouterReplies
  BY DEF ProgramNext, Reads, UserChooses, NobodyChooses, MenuReads, ReadUsername, ReadPassword,
         ReadQuery, ReadMac, Pause, Gone
<1> QED
  BY <1>1, AnswerIsOneLess DEF RouterReplies

(***************************************************************************)
(* A command of the menu takes three answers of the router at most, and    *)
(* reads nothing in the meantime: while it runs the router is being asked, *)
(* each answer leaves fewer to wait for, and the last one leads back to    *)
(* the Enter that ends the command, or ends the process.                   *)
(***************************************************************************)
THEOREM CommandsAreShort ==
  ProgramSpec => /\ [](at = "running" /\ ~Over => Pending)
                 /\ [][at = "running" /\ ~Over =>
                         /\ AnswersAwaited(pc') < AnswersAwaited(pc)
                         /\ pc' = "idle" => at' = "pause"]_programVars
<1>1. ProgramInit => RunningWaits
  BY DEF ProgramInit, RunningWaits
<1>2. RunningWaits /\ [ProgramNext]_programVars => RunningWaits'
  BY RunningWaitsNext
<1>3. RunningWaits => (at = "running" /\ ~Over => Pending)
  BY DEF RunningWaits, Over, Pending
<1>4. RunningWaits /\ [ProgramNext]_programVars =>
        [at = "running" /\ ~Over => /\ AnswersAwaited(pc') < AnswersAwaited(pc)
                                    /\ pc' = "idle" => at' = "pause"]_programVars
  BY RunningStep
<1> QED
  BY <1>1, <1>2, <1>3, <1>4, PTL DEF ProgramSpec

=============================================================================
