# Verification of the Converge WiFi manager

TLA+ models of the Converge WiFi manager, a single-threaded C++ command line
program that logs in to a ZTE F670L router over HTTP, lists the devices it
serves and blocks or unblocks them in its MAC filter.  TLC checks the models on
small instances; TLAPS proves the theorems for every value of the constants.

## The system

| component | state | operations | interacts with |
|---|---|---|---|
| `ZteF670LRouterClient` | `loggedIn_`, `cookies_` (`sessionToken_` is only cleared) | `login`, `logout`, `routerInfo`, `connectedDevices`, `blockDevice`, `unblockDevice` | calls `IHttpClient::send` and waits for the answer |
| form scraping (same file) | none: pure functions on a list of fields | `extractFormFields`, `getField`, `setField`, `findAclIndexByMac` | used by block and unblock |
| `DeviceService` | the cached device list | `refresh`, `search`, `cachedDevices` | calls `connectedDevices` |
| `Application` | none | one method per menu entry | calls the client and the service |
| `CommandDispatcher` | the state of `std::cin` | the menu loop | calls the application |
| `ConfigLoader`, `RouterFactory`, `main` | the configuration | `load`, `create` | read the file, build the others |
| DHCP table parsing (`connectedDevices`) | the map of rows, the device list | a loop over the matches, a loop over the map | the page the client reads |
| `WinHttpClient` | session and connection handle, the host and port it leads to | `send`, with up to five returns | WinHTTP, the network |
| `CurlHttpClient` | the curl handle | `send`, two callbacks | libcurl, the network |
| the router (external) | sessions, access control list, form token | answers requests | other administrators change it too |
| `Logger` | its level | writes lines | none |

Nothing in the program runs concurrently, and yet a call is not atomic: it asks
the router one to three times and decides on what an earlier answer said.
Between two answers the session may end, another administrator may change the
list, an exchange may time out with the request already applied.  The hazards of
`PROJECT.json` list these places line by line; what makes each component correct:

- client: no management request outside a session; a change is made of the page
  just read; success is reported only for what was answered in the session;
  `routerInfo` and the two changes report an expiry as one, and the calls that
  cannot (`connectedDevices`, `logout`) take nothing from the page that shows it;
  nothing of an ended session is sent later; every call returns.
- forms: the fields the code sets are the fields the router reads, all other
  fields of the page are kept, and the row deleted is a row of the address asked.
- service and application: the cached devices are those of an answer in session.
- dispatcher: the loop waits for input, or ends; without input nothing is sent.
- device table: the rows are the leases of the page, in order, with the texts as
  the router was given them; what is shown can be found.
- start-up: what a bad file leaves at its default, and which file ends the program.
- HTTP clients: a request goes to its own server, no handle is lost on any return,
  a failed connect is tried again, and what is returned is what was answered.

## Modules

- `FormFields`: the pure part of the client.  A field is a name and a value; a
  name is a base and a digit suffix, split where the client splits it.  A page is
  what the regular expressions of `extractFormFields` find in it.
- `ZteF670LRouterClient`: the client.  `loggedIn` and `cookies` are its members;
  `pc` names the request it waits for, `req` and `resp` are the last request and
  answer, `result` is what the last call returned.  An action is the code from one
  answer to the next request (`BlockDevice`, `BlockPageReply`, `BlockPostReply`),
  with `mergeCookies` and `checkSessionExpiration` in every one of them.  Its
  environment is open: any answer of a set comes to any request.
- `RouterSession`: what a caller of `IRouterClient` may rely on, without the
  exchanges: session, phase of the running call, success.  The client implements
  it (`ImplementsRouterSession`, with `session <- loggedIn_`, the phase read off
  `pc`, and `ok` off the result).
- `HttpAnswers`: what `send()` of each HTTP client makes of the router's answer,
  whole, cut short, or failed.  `WinHttpClient` returns without an error a body that
  was cut, a status of 0 when it could not query it, and no cookies and no Location
  when it could not query those; `CurlHttpClient` returns a part of the answer next to its error and never
  fills the cookies.  `HttpTransport` says it of the pages of the client's model,
  `HttpExchange` of pages in pieces.
- `HttpExchange`: what the caller of `IHttpClient::send` may rely on, without the
  libraries: a request is asked once and answered once, what comes back is an
  outcome `HttpAnswers` lists for that answer or a failure that holds nothing of
  it, and nothing is left for the next request.  `HttpClients` implements it
  (`ImplementsHttpExchange`: the phase read off `pc`, the answer seen while it is
  on its way and the response once it is returned).  Of an answer whose header is
  not written as the clients look for it (`clear`) only status and body are said.
- `ManagedRouter`: client, transport and router, closed.  The router is outside
  the repository and is what the client takes it to be: a login grants a session
  cookie, a stranger gets a login page or a redirect to one, the MAC filter page
  carries a form token that is good for one change, `IF_ACTION=new` adds the first
  `MACAddress` of the form, `delete` removes row `IF_INDEX`.  Sessions time out,
  another administrator changes the list at any time, the client gives up on
  requests that are lost or still on their way.  `flight`, `answer` and `late` are
  the wire, `asked` the address each of the `late` requests was made for (a history
  variable: what a request asks for is its call's argument, not its form), `fate`
  is what the router did for the running call, `touched` that the
  list has changed since the token was issued, `ended` the last session the client
  ended.
- `CommandDispatcher`: the program's one thread above the client: the menu loop,
  the `Application` method of each entry, `DeviceService` and its cache, and the
  state of `std::cin` (`cin`: good, failed with input left to read, or at its end).
  A step is the code from one blocking point to the next, so that the number read
  at the menu and the `ignore()` of what follows it on its line are one step.
- `DhcpTable`: the two loops of `connectedDevices()` and the filter of
  `DeviceService::search`.  A match of the regular expression has a key, a number
  and a text; texts are sequences of bytes, since unescaping, the `char` that
  `std::stoi` is cut to, and the comparison in small letters are what the
  properties are about.  `ReadMatch` is one turn of the first loop, `CopyRow` of
  the second; a number beyond `MaxInt` throws (`pc = "aborted"`).  In
  `ZteF670LRouterClient` the result is the answer's `leases`.
- `Startup`: `load()` key by key (`at`, `next`), with the conversions that throw,
  wrap or cut and the one `catch` around them, then `create()`.
- `HttpClients`: both `send()` functions statement by statement.  `pc` is the
  statement that comes next, `connections` and `requests` count the handles open,
  `read` the header lines curl has delivered.  The calls that may fail are those of
  WinHTTP that open the session, connect, open the request, exchange it, query the
  headers (`QueryHeaders`: the code looks at no result of the three) and read the
  body, and of libcurl `curl_easy_init()` and `curl_easy_perform()`; those that set
  options, timeouts and request headers do not.
  `HttpAnswers` is the same in one step, for answers whose header names are
  written the way the clients look for them; that `HttpClients` implements
  `HttpExchange`, which is made of it, is what lets `ManagedRouter` take
  `HttpTransport` for the two functions.
- `MCZteF670LRouterClient`, `MCManagedRouter`, `MCCommandDispatcher`,
  `MCDhcpTable`, `MCStartup`, `MCHttpClients`: the constants for TLC.
- `FormFieldsProofs`, `ZteF670LRouterClientProofs`, `ManagedRouterProofs`,
  `CommandDispatcherProofs`, `DhcpTableProofs`, `StartupProofs`,
  `HttpClientsProofs`: the theorems.
- `Induction`: what the proofs need of recursive functions, of `IsPrefix`,
  `FlattenSeq` and the folds; nothing of this program.

The user name, the password, its hash, and all wording are left out: nothing is
decided on them but whether both are given.  `sessionToken_` is only ever cleared
and `fetchLoginToken()` never called.

## Runs and bounds

- `client` checks the properties of the client.  The answers are the product of
  the shapes that take every branch (the pages the router serves, cut short or
  without token, the status codes the code compares with and the 0 of a status that
  could not be queried, both kinds of Location,
  a failed exchange with and without half a page) and of the values of one
  cookie; two addresses, one of them listed in capitals; two row numbers.  The
  code compares one answer with the state two answers ago at most, and every
  answer is possible at every step, so more values of the same kind add states and
  no behaviour.  No counter is bounded: there is none.
- `managed_router` checks what the client reports against what the router did, over
  `WinHttpClient`.  One address the user manages and one of another administrator
  (a second address of the user's takes the run beyond what can be checked in
  minutes; that a change never serves the address of another call is the theorems',
  for any number of them, and the run that an empty one does not serve for it),
  in a list of at most two rows (`RowNames`): enough for a row to be first or
  second, to move up when the other is deleted, and for an address to be listed
  twice.  One session at a time (`MaxLive`; with it held, a login is refused until
  it times out) and two session cookies, so that the one in the jar can be live,
  dead or replaced.  One delayed request (`MaxLate`) and two form tokens: the
  current one and that of the delayed request; while both are taken the router
  does not answer a new MAC filter page and the client gives up.  A delayed request
  that could change nothing is dropped.  Sessions and tokens are interchangeable
  (`SYMMETRY`): no property names one.  The list begins empty.
- `console` checks the whole thread under every kind of line at the menu (an
  option, another int, no number, too large a number, or the end of the input), any
  line, there and at the other prompts, being the last one or not, with nine
  answers of the router.  `EndedInputSendsNothing` takes the prompts of a command
  whose input is missing together with the loop itself.  `Mac` has one address and
  the empty line; what a user name, a password or a query is makes no difference
  beyond being empty.
  `CacheChange` says when the cached devices may change: in a refresh, to the
  table of an error-free answer that kept the session or, however the refresh
  failed, to nothing.
- `devices` checks every sequence of up to four matches (`MaxMatches`): enough to
  fill a row, to mix two rows, and to give a column twice.  The rows have the
  numbers 2 and 10, which sort one way as numbers and the other way as texts;
  `MaxInt` is 10, so that 11 is beyond it, as 2^31 is for the code.  The texts are
  empty, plain, escaped, with an escape cut short, and with what `std::stoi` takes
  for two hex digits (a sign and a digit, one digit and a letter).
  `NamesAreShown` is about names the router has escaped as two hex digits or left
  as they are; what else `std::stoi` takes is in `TypeOK` alone.
- `startup` checks every combination of the five keys absent, right or of a wrong
  type, and the files that are missing, no JSON, or no object.  `MaxInt` is 31,
  with values of the interval at 5, 2 above the largest int, and a fraction and a
  boolean, which `get<int>()` takes as well.  Keys do not influence one another
  except by ending the `try`, so one wrong value of each kind is enough.
- `http_clients` checks sequences of requests to two servers and to a URL without
  one (`NoServer`), of any length, for both clients.  Answers have up to two header
  lines, so that a name may come twice or in small letters, and bodies of up to two
  pieces, so that one may break off before, between and after them.  With
  `ImplementsHttpExchange` each behaviour of the run, failing library calls and
  callbacks included, is a behaviour of `HttpExchange`.  A response is compared with
  the answer to its own request only, so a value left of the one before, or a
  request sent twice, would be seen.
- Six further runs each check what a comment, a test or a message of the program
  says, and find it violated (see `findings` in `PROJECT.json`):
  - `login_success`: `login()` succeeds although the page it was redirected to has
    ended the session, and leaves none;
  - `login_cookies`: a login while the old session is still remembered posts the
    credentials without the cookies of the login page;
  - `curl_cookies`: over `CurlHttpClient` no cookie is ever stored, so a login
    that the router grants is of no use;
  - `cut_login_page`: over `WinHttpClient` a refused login whose answer is cut in
    the body is a success;
  - `letters_exit`: a line that is no number ends the program;
  - `no_second_try`: after a number too large for an `int` the loop prints the menu
    for ever and never reads the lines that follow.

What the properties of `managed_router` do not forbid, and the model shows: a
second block of an address adds a second row, and one unblock removes the first
only; a login that fails after the router granted it leaves a session there that
nobody logs off; a change that the router refuses for its stale token is reported
as sent, because the client reads the status and not the verdict in the page; a
delete whose row moved, because another administrator changed the list between
the page and the post, removes another address.

What the other runs do not forbid, and the models show: after a wrong type in
`config.json` the keys before it keep the file's values, where the comment at
`ConfigLoader.cpp:27` says "return defaults" (of "malformed JSON", which may or may
not mean this case: `ConfigIsTheFiles` and `EndsByTypeOnly` allow both); a refresh
that fails empties the device list, and an expiry seen by `connectedDevices()` looks
the same as no device; an index `std::stoi` rejects ends the process; a login that
fails keeps the cookies of the session before; an interval too large for an `int`
wraps to a negative one; a `location` or `set-cookie` header in small letters is not
seen, and an answer whose headers could not be queried has status 0, no cookies and
no Location, and no error.

Fairness.  The client: a request sent is answered (`WF_vars(Answered)`), as both
HTTP clients end every request by an answer or, after `timeoutSeconds`, by an
error; nobody is obliged to call.  For `WinHttpClient` that takes a body that
ends: its timeouts start anew with every piece that is read (`WinHttpClient.cpp:102`),
and a router that never stops sending keeps it for ever.  The program: the same, and the thread runs on
when a read does not wait (`cin # "open"`); the user is never obliged to type.
`ManagedRouter`, `DhcpTable`, `Startup` and `HttpClients` state safety only and no
fairness.

Deadlock is checked in every run.  A program that has ended is `Gone`, a step that
changes nothing.

## Proofs

The theorems hold for every value of the constants, under the assumptions the
modules state: the literals of the code are texts, digits are texts that are not
empty and `Lower` maps texts to texts (`TextAssumption`); the answers are
well-formed, `NoCookie` and `Overflow` are no cookie and no table
(`ClientAssumption`); the session cookie is one of the cookies, tokens and
addresses are texts, row numbers are digits, no two rows have the same, and the
bounds are numbers (`ManagedAssumption`); matches, files and answers are well-formed
(`TableAssumption`, `StartupAssumption`, `HttpAssumption`).

- `FormFieldsProofs`: what `setField`, `getField` and `findAclIndexByMac` return
  and preserve, and from these what the two forms say (`BlockFormEffect`,
  `UnblockFormEffect`).
- `ZteF670LRouterClientProofs`: every safety property of the run `client`.
  `TypeOK` is inductive.  `SessionInv` joins `LoginOutcome` and
  `EndedSessionForgotten` with the session each value of `pc` needs
  (`SessionOfStep`: a management request is pending only in session, and `result`
  is empty while a call runs); without that part the two are not preserved, since
  they speak of the moment a call returns only.  `ChangeInv` joins `Posted`, what
  the request and the page it was made from have in common while a change is
  pending, with `SuccessWasAnswered`: a success is reported one answer after the
  post, and only `Posted` remembers what was posted.  `Posted` follows from the
  lemmas on forms.  The two action properties (`ExpiryReported` in two halves, `ReportStep` and
  `SilentStep`) and the refinement of `RouterSession` follow from these invariants step by step; for an answer
  (`ReplyRefines`) the refinement takes `SessionInv` and that `loggedIn` is a truth
  value, and nothing of the answer, so that it holds over any transport.  `CallsAreShort` is
  the part of `CallReturns` that needs no fairness: a call takes three answers at
  most, and while it runs only an answer can happen.
- `ManagedRouterProofs`: what a report of the client means at the router.  Every
  step of `ManagedRouter` is a step of the client on the answer that arrives, or
  leaves the client alone, so `SessionInv` carries over, and with it the
  refinement of `RouterSession` (`ManagedRefinesRouterSession`): the answers the
  two transports make, cut and broken ones included, are not among `Answers`,
  which the theorem on the client alone is about.  `FateInv` joins it with
  `Asked` (which request is pending for which `pc`) and `FateOfStep`: until the
  post of a change goes out the router has done nothing for the call, and while an
  answer is on its way `fate` says what that answer was given for.  The two
  properties speak of the moment a call returns and know nothing of the answer
  then, so neither is inductive without that part.  `EndedForgotten` says that no
  place the next request could take its session from holds the ended one: not the
  jar, not the request under way, not the answer.  The property is about the
  request alone; the other two are where the next request gets its cookies.
  `ListInv` is what makes the row number of a delete good for the row it deletes.
  The form is made from a page, travels, and may arrive after the client has given
  it up, so the invariant follows the page's token through every place a form can
  be made from or carried in: the answer, the request, the delayed requests.
  While a page's token is the one the router accepts and nobody else has touched
  the list, each row of the page is the row of the list of that number
  (`TruePage`), and a delete made from it names the row that holds its address
  (`NamesItsRow`).  That takes new tokens that nothing under way carries yet, and
  rows that can be told apart by their number.  Both were gaps of the model that
  the proof found: a router that issues, as new, a token
  that the answer on its way already carries breaks the property once two requests
  may be late (`MaxLate >= 2`, while the run has 1), so `FreshTokens` and
  `FreshSessions` now leave out what the answer holds; and two rows of one number
  make any index ambiguous, so `ManagedAssumption` excludes them.  `AskInv` ties
  what a request asks for to the call it was made for: the form of a pending change
  is made for `mac`, and that of a delayed request for the address `asked` has
  noted when it was given up.  With it the two theorems name that address, not just
  one that is managed.
- `CommandDispatcherProofs`: every step of the program is a step of the client or
  leaves it alone (`ProgramStep`), so the invariants above hold of the program,
  and it implements `RouterSession` as the client does.  Each read that meets an
  input that has ended or failed leads to a step that sends nothing, prompt by
  prompt (`DeadInputStepHolds`).  A step of the client returns from
  `connectedDevices()` only in a refresh (`RefreshAsks`), while all other steps
  leave the cache alone, which gives `CacheChange`.  While a command runs the
  thread does nothing but take answers, three at most, and the last leads to the
  Enter (`CommandsAreShort`).
- `DhcpTableProofs`: `ListsTheLeases`, for pages of any length.  The invariant has
  a part for each loop: `Scanned`, the map holds the last text of each column of
  the matches read and no row that none of them mentioned; `Copied`, the list
  holds the complete rows below those left, in order.  What a text is after
  unescaping does not matter to it; the other three properties turn on that.
  `NamesAreShown` is `ListsTheLeases` with the lemma that unescaping reads back
  what the router wrote (`UnescapeWritten`: by induction from the end of the text,
  one written byte at a time, since a byte in the middle is read the same whatever
  comes before it).  `TypeOK` takes an invariant of its own, that every text of
  the map and the list is a sequence of bytes (`RowsTyped`), and the induction that
  `Unescape` keeps bytes bytes.  `FoundByWhatIsShown` is about the filter alone:
  each row that matches is kept (`SearchFinds`, by induction over the table), and a
  part of a text matches whatever its case.  `Search` is a function over the table
  for this reason: nothing is known to the prover of `SelectSeq`.
- `StartupProofs`: the keys before `next` are applied and the others at their
  default, until the first value that does not convert stops the loop.  From that
  invariant follow what the configuration is (`FilesUpToTheStop`, which says what the
  code does behind a wrong type; the property asks for less), its types (a wrapped
  integer is an int), and which files end the program.
- `HttpClientsProofs`: at most one connection is open and it is the one kept; a
  request handle is open exactly from `WinHttpOpenRequest` to the close on each
  return.  With that, and the server of the connection, the three properties on
  handles are inductive.  `ReturnsTheAnswer` speaks of the moment `send()` returns
  only; `Arrives` adds what the response holds at each statement before that:
  nothing until the exchange, then the status, or 0, the cookies and Location of the
  header lines, or none of them, and a prefix of the body (`Queried`), or, inside libcurl, the Location of
  the lines read so far and a prefix of the body (`Receiving`).  That the fold over
  the header lines gives the last cookie of each name is an induction over the
  lines (`ParsedCookies`).  The refinement of `HttpExchange` has a step for each
  statement: those before the exchange and the loops are stutters, and a return is
  an outcome of `HttpAnswers` by `Arrives`.  It takes one more fact about the loop
  inside libcurl, that a piece of the body comes after all the header lines only
  (`HeadersFirst`): else a transfer that broke off could return a body without
  the Location that came before it.  `SendEnds` has the measure by which both functions
  end: the statements left, and within the two loops what is left of the answer.
- `Induction`: the library's induction theorems take an operator for the
  hypothesis, which the provers cannot instantiate.  `NatSetInduction` takes the
  set of the numbers the hypothesis holds for instead, and follows from the
  well-foundedness of `<` on the naturals; each induction above is a set of that
  kind.  With it come the recursive functions behind `FlattenSeq` and the folds.

Every safety and action property of the passing runs is the statement of one of
these theorems.  Only model-checked are the two liveness properties, `CallReturns`
and `CommandsEnd`: they take fairness and `ENABLED`, on which the proof system has
nothing to say.  The theorems `CallsAreShort` and `CommandsAreShort` are what is
left of them without: no call and no command can go round in circles.  That an
answer is possible whenever one is awaited, and that it comes, is the run's.  The
six violations are shown by TLC on one instance each, as counterexamples are.

## Plan

In order; all are done.

1. `FormFields`, `ZteF670LRouterClient`, `RouterSession`: the session and the
   changes, with their theorems.
2. `HttpTransport`, `ManagedRouter`: what is reported against what the router did.
3. `CommandDispatcher`: the program around the client.
4. Theorems on the client and the program.
5. `DhcpTable`: the device table of `connectedDevices()` and the filter of
   `DeviceService::search`, with the theorem on what is listed.
6. `Startup`: `ConfigLoader`, `RouterFactory` and `main()`, with their theorems.
7. `HttpClients`: the two `send()` functions, with the theorems on handles; the
   theorems on `ManagedRouter` that relate reports to what the router did.
8. `DeletesWhatWasAsked` and `AddsWhatWasAsked` as theorems, from an invariant on
   the token a pending form carries and the list as it was when the token was
   issued; `Induction`, and with it the theorems on texts and header lines.
9. The abstract specifications at every level: `RouterSession` for the program
   and over both transports, `HttpExchange` for the two HTTP clients.

What could come next is what the run `managed_router` shows of an address blocked
twice, as a property, with the invariant that counts the rows of an address.

## Not modelled

- `Logger`: it writes lines and keeps a level nothing depends on.
- Printing, the layout of the device table, and `Device.blocked`, which nothing
  sets.
- The text of a request: percent-encoding of the form, the header and cookie lines.
- WinHTTP's own cookie store, which belongs to the session handle and is not turned
  off: `EndedSessionUnused` is about what the client hands to `send()`, and the
  models take that for what goes out.
- The texts `routerInfo()` extracts and the HTML entities in them: nothing is
  decided on them.
- The console read of a password on Windows (`Application.cpp:31`);
  `CommandDispatcher` reads it as on POSIX.
- `fetchLoginToken()`, which nothing calls, the tests and the build.
