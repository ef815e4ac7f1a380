------------------------- MODULE CommandDispatcher --------------------------
(***************************************************************************)
(* The program's one thread: CommandDispatcher::run(), the Application     *)
(* method each menu entry calls, DeviceService with its cache, and the     *)
(* router client below them.  A step is the code from one blocking point   *)
(* to the next: a read of std::cin that waits, or a pending request.       *)
(*                                                                         *)
(* std::cin is open while its state is good.  Nothing in the program ever  *)
(* clears it: after a line it cannot convert, or the end of the input,     *)
(* every later read returns at once and leaves its variable as it was.     *)
(* What follows the number on a line of the menu is ignored up to and with *)
(* its end, in the step that reads the number.                             *)
(*                                                                         *)
(* What is printed is left out, and with it Device.blocked, which nothing  *)
(* sets; search() and the device table change nothing.  The password is    *)
(* read as on POSIX, from std::cin.                                        *)
(***************************************************************************)
EXTENDS ZteF670LRouterClient

CONSTANT Lines  \* what the user may type at the menu

\* The options of the menu; "other" is any other int, "text" no number,
\* "overflow" one that no int holds, "end" that there is no line any more.
Options == {"0", "1", "2", "3", "4", "5", "6", "7", "8", "9"}
Numbers == Options \cup {"other"}
Kinds   == Numbers \cup {"text", "overflow", "end"}

ASSUME LinesAssumption == Lines \subseteq Kinds

VARIABLES
  at,       \* where the thread waits
  cin,      \* "open", "failed" with input left to read, or "ended"
  typed,    \* the line read at the menu in this round, "none" if none was
  choice,   \* the local of run()
  given,    \* a user name was given
  devices   \* DeviceService::devices_

consoleVars == <<at, cin, typed, choice, given, devices>>
programVars == <<vars, consoleVars>>

\* What a failed read leaves in choice: run() has set it to -1 in this round.
UnreadKept == choice
Unread == "-1"

ProgramInit ==
  /\ Init
  /\ at = "menu" /\ cin = "open" /\ typed = "none" /\ choice = "-1"
  /\ given = FALSE /\ devices = << >>

-----------------------------------------------------------------------------
(* std::cin *)

\* operator>> of an int: on failure it writes 0, or the largest int, or nothing.
Converted(line) ==
  CASE line \in Numbers -> line
    [] line = "overflow" -> "other"
    [] line = "text" -> "0"
    [] line \in {"end", "none"} -> Unread

\* What the stream may be after a line: any line may be the last one, with or
\* without a newline of its own.
After(line) ==
  CASE line \in Numbers -> {"open", "ended"}
    [] line \in {"text", "overflow"} -> {"failed", "ended"}
    [] line = "end" -> {"ended"}

\* readLine(): the value is the line or, once the stream is not good, empty.
\* The input may end with this line.
ReadsLine(value, next) ==
  /\ cin # "open" => value = NoText
  /\ cin' \in IF cin = "open" THEN {"open", "ended"} ELSE {cin}
  /\ at' = next

-----------------------------------------------------------------------------
(* The menu *)

\* A call of the client: it may return at once.
Calls(method) ==
  /\ method
  /\ at' = IF pc' = "idle" THEN "pause" ELSE "running"

Refresh ==
  /\ Calls(ConnectedDevices)
  /\ devices' = IF pc' = "idle" THEN result'.devices ELSE devices

Goes(next) == at' = next /\ UNCHANGED vars

Dispatch(option) ==
  \/ option = "1" /\ Goes("username") /\ UNCHANGED devices
  \/ option = "2" /\ Calls(RouterInfo) /\ UNCHANGED devices
  \/ option = "4" /\ Goes("query") /\ UNCHANGED devices
  \/ option = "5" /\ Refresh
  \/ option = "6" /\ Goes("blockMac") /\ UNCHANGED devices
  \/ option = "7" /\ Goes("unblockMac") /\ UNCHANGED devices
  \/ option = "9" /\ Calls(Logout) /\ UNCHANGED devices
  \/ option = "0" /\ Goes("exited") /\ UNCHANGED devices
  \/ option \notin {"0", "1", "2", "4", "5", "6", "7", "9"} /\ Goes("pause") /\ UNCHANGED devices

MenuReads(line) ==
  /\ at = "menu"
  /\ typed' = line
  /\ choice' = Converted(line)
  /\ Dispatch(choice')
  /\ UNCHANGED given

\* An empty line at the menu is skipped: the thread goes on waiting.
UserChooses ==
  /\ cin = "open"
  /\ \E line \in Lines :
       /\ MenuReads(line)
       /\ cin' \in After(line)

NobodyChooses ==
  /\ cin # "open"
  /\ MenuReads("none")
  /\ UNCHANGED cin

ReadUsername ==
  /\ at = "username"
  /\ \E value \in {NoText, "login"} : ReadsLine(value, "password") /\ given' = (value # NoText)
  /\ UNCHANGED <<vars, typed, choice, devices>>

ReadPassword ==
  /\ at = "password"
  /\ \E value \in {NoText, "login"} :
       /\ Login(given /\ value # NoText)
       /\ ReadsLine(value, IF pc' = "idle" THEN "pause" ELSE "running")
  /\ UNCHANGED <<typed, choice, given, devices>>

ReadQuery ==
  /\ at = "query"
  /\ \E value \in {NoText, "login"} : ReadsLine(value, "pause")
  /\ UNCHANGED <<vars, typed, choice, given, devices>>

ReadMac ==
  /\ \/ at = "blockMac" /\ \E m \in Mac :
          BlockDevice(m) /\ ReadsLine(m, IF pc' = "idle" THEN "pause" ELSE "running")
     \/ at = "unblockMac" /\ \E m \in Mac :
          UnblockDevice(m) /\ ReadsLine(m, IF pc' = "idle" THEN "pause" ELSE "running")
  /\ UNCHANGED <<typed, choice, given, devices>>

\* pause(): waits for a line, whatever is in it, while there can be one.
Pause ==
  /\ at = "pause"
  /\ \E value \in {NoText, "login"} : ReadsLine(value, "menu")
  /\ UNCHANGED <<vars, typed, choice, given, devices>>

RouterRepliesShowing ==
  /\ at = "running"
  /\ Answered
  /\ at' = IF pc' = "idle" THEN "pause" ELSE "running"
  /\ devices' = IF pc' = "idle" THEN result'.devices ELSE devices
  /\ UNCHANGED <<cin, typed, choice, given>>
RouterReplies ==
  /\ at = "running"
  /\ Answered
  /\ at' = IF pc' = "idle" THEN "pause" ELSE "running"
  /\ devices' = IF pc = "dhcp" /\ pc' = "idle" THEN result'.devices ELSE devices
  /\ UNCHANGED <<cin, typed, choice, given>>

Over == at = "exited" \/ pc = "aborted"
Gone == Over /\ UNCHANGED programVars

Reads == UserChooses \/ NobodyChooses \/ ReadUsername \/ ReadPassword \/ ReadQuery \/ ReadMac \/ Pause

ProgramNext == Reads \/ RouterReplies \/ Gone

\* The thread runs on unless it waits for the user; requests are answered, or
\* fail by timeout.
ProgramFairness ==
  /\ WF_programVars(RouterReplies)
  /\ WF_programVars(cin # "open" /\ Reads)

ProgramSpec == ProgramInit /\ [][ProgramNext]_programVars /\ ProgramFairness

-----------------------------------------------------------------------------
(* Properties *)

(***************************************************************************)
(* Once nothing can be read any more and the command that was running has  *)
(* ended, the router is asked for nothing, ever after: no option of an     *)
(* earlier round is carried out again, and the prompts of a command whose  *)
(* input is missing read nothing that would be sent.                       *)
(***************************************************************************)
EndedInputSendsNothing ==
  [][cin # "open" /\ pc \notin Waiting => cin' # "open" /\ pc' \notin Waiting]_programVars

(***************************************************************************)
(* The cached devices, which the user lists and searches, change in a      *)
(* refresh only: they become the table of an answer that came without an   *)
(* error and kept the session, or, if there was none, nothing.             *)
(***************************************************************************)
CacheChange ==
  [][devices' # devices =>
       /\ choice' = "5"
       /\ devices' # << >> => /\ devices' = resp'.page.leases
                             /\ loggedIn' /\ ~ShowsLogin(resp') /\ ~resp'.error]_programVars

(***************************************************************************)
(* A command ends, and the loop goes on to its next read, also when the    *)
(* input has ended in the meantime.                                        *)
(***************************************************************************)
CommandsEnd == at = "running" ~> at = "pause" \/ Over

-----------------------------------------------------------------------------
(* What the program says to its user and does not do *)

(***************************************************************************)
(* Anything that is not an option is "Unknown option. Try again.": the     *)
(* program ends by option 0 alone ("0. Exit").                             *)
(***************************************************************************)
OnlyZeroExits == at = "exited" => typed = "0"

(***************************************************************************)
(* After "Unknown option. Try again." the user is given the chance: unless *)
(* there is no input any more, the program comes to wait for the next line,*)
(* or ends.                                                                *)
(***************************************************************************)
UserCanTryAgain == [](choice = "other" => <>(cin # "failed" \/ Over))

=============================================================================
