------------------------------- MODULE Startup -------------------------------
(***************************************************************************)
(* The start of the program: main() loads config/config.json with          *)
(* ConfigLoader and has RouterFactory make the client the file names.      *)
(*                                                                         *)
(* The file is what nlohmann::json makes of it: missing, discarded (not    *)
(* JSON), a JSON value that is no object, or an object with some of the    *)
(* keys the loader asks for.  The keys are applied one by one inside one   *)
(* try block, each with a conversion that throws on a value of another     *)
(* type.  A step is one statement of load() or of main().                  *)
(***************************************************************************)
EXTENDS Integers, Sequences

CONSTANTS
  Text,            \* what a string of the file may be
  MaxInt,          \* the largest int
  Files            \* the files the program may find

Supported == "ZTE_F670L"

MinInt == -MaxInt - 1

\* The keys in the order load() asks for them.
KeyOrder == <<"router_ip", "router_type", "username", "auto_login", "refresh_interval">>
Keys     == {KeyOrder[i] : i \in 1..5}

\* A real stands for its integer part; other is null, an array or an object.
Json == [string : Text] \cup [boolean : BOOLEAN] \cup [integer : Int] \cup [real : Int]
          \cup [other : {"null"}]
IsFile(f) == /\ f.kind \in {"missing", "discarded", "value", "object"}
             /\ DOMAIN f.object \subseteq Keys
             /\ \A key \in DOMAIN f.object : f.object[key] \in Json

ASSUME StartupAssumption ==
  /\ {"192.168.1.1", Supported, "admin"} \subseteq Text
  /\ MaxInt \in Int /\ 30 <= MaxInt
  /\ \A f \in Files : IsFile(f)

\* models::AppConfig, by the key each member is read from.
AppConfig == [router_ip : Text, router_type : Text, username : Text,
              auto_login : BOOLEAN, refresh_interval : MinInt..MaxInt]
Defaults  == [router_ip |-> "192.168.1.1", router_type |-> Supported, username |-> "admin",
              auto_login |-> FALSE, refresh_interval |-> 30]

VARIABLES
  file,    \* what is on the disk
  at,      \* "open", "apply" (load()), "create" (RouterFactory), "running", "terminated"
  next,    \* the place in KeyOrder of the key to apply
  config

vars == <<file, at, next, config>>

Init == file \in Files /\ at = "open" /\ next = 1 /\ config = Defaults

-----------------------------------------------------------------------------
(* ConfigLoader::load() *)

Is(type, v) == type \in DOMAIN v

\* Whether the conversion to the type of the member succeeds: get<int>() takes
\* a boolean and a fraction as well.
Converts(key, v) ==
  CASE key = "auto_login" -> Is("boolean", v)
    [] key = "refresh_interval" -> Is("integer", v) \/ Is("real", v) \/ Is("boolean", v)
    [] OTHER -> Is("string", v)

ToIntUnchecked(n) == n
ToInt(n) == ((n - MinInt) % (MaxInt - MinInt + 1)) + MinInt

\* The values it may yield: a real that no int holds gives one end or the other.
Converted(key, v) ==
  CASE Is("string", v)  -> {v.string}
    [] Is("boolean", v) ->
         {IF key = "auto_login" THEN v.boolean ELSE IF v.boolean THEN 1 ELSE 0}
    [] Is("integer", v) -> {ToInt(v.integer)}
    [] Is("real", v)    -> IF v.real \in MinInt..MaxInt THEN {v.real} ELSE {MinInt, MaxInt}

\* A missing file, and one that is no JSON, leave the defaults; contains() is
\* false of whatever is no object.
Open ==
  /\ at = "open"
  /\ at' = IF file.kind \in {"missing", "discarded"} THEN "create" ELSE "apply"
  /\ UNCHANGED <<file, next, config>>

Holds(key) == file.kind = "object" /\ key \in DOMAIN file.object

\* json::exception ends the try block; what was applied before it stays.
CaughtSkipping == at' = "apply" /\ next' = next + 1 /\ UNCHANGED config
Caught == at' = "create" /\ UNCHANGED <<next, config>>

ApplyKey ==
  /\ at = "apply" /\ next <= Len(KeyOrder)
  /\ LET key == KeyOrder[next]
     IN  IF ~Holds(key) THEN next' = next + 1 /\ UNCHANGED <<at, config>>
         ELSE IF Converts(key, file.object[key])
           THEN /\ \E v \in Converted(key, file.object[key]) : config' = [config EXCEPT ![key] = v]
                /\ next' = next + 1
                /\ UNCHANGED at
         ELSE Caught
  /\ UNCHANGED file

Loaded ==
  /\ at = "apply" /\ next > Len(KeyOrder)
  /\ at' = "create"
  /\ UNCHANGED <<file, next, config>>

-----------------------------------------------------------------------------
(* RouterFactory::create(), and main() after it *)

\* Nothing catches std::invalid_argument: std::terminate.
CreatedAnyway(type) == "running"
Created(type) == IF type = Supported THEN "running" ELSE "terminated"

Create ==
  /\ at = "create"
  /\ at' = Created(config.router_type)
  /\ UNCHANGED <<file, next, config>>

Started == at \in {"running", "terminated"} /\ UNCHANGED vars

Next == Open \/ ApplyKey \/ Loaded \/ Create \/ Started

Spec == Init /\ [][Next]_vars

-----------------------------------------------------------------------------
(* Properties *)

TypeOK ==
  /\ file \in Files
  /\ at \in {"open", "apply", "create", "running", "terminated"}
  /\ next \in 1..6
  /\ config \in AppConfig

\* The place of a key.
Place(key) == CHOOSE i \in 1..5 : KeyOrder[i] = key

\* No value up to this key is of a wrong type.
ReachedBy(key) ==
  \A i \in 1..Place(key) : Holds(KeyOrder[i]) => Converts(KeyOrder[i], file.object[KeyOrder[i]])

\* No value in the file is of a wrong type.
AllConvert == \A key \in Keys : Holds(key) => Converts(key, file.object[key])

(***************************************************************************)
(* The program runs with the file's values and with the defaults of the    *)
(* keys the file leaves out (HandlesMissingValuesGracefully,               *)
(* ConfigLoaderTests.cpp).  A value of a wrong type and the values of all  *)
(* later keys are not used.  Whether the keys before it then keep the      *)
(* file's values, as they do, or have their defaults, as the comment in    *)
(* load() may be read ("return defaults"), is left open.                   *)
(***************************************************************************)
ConfigIsTheFiles ==
  at \in {"create", "running", "terminated"} =>
    \A key \in Keys :
      \/ Holds(key) /\ ReachedBy(key) /\ config[key] \in Converted(key, file.object[key])
      \/ ~(Holds(key) /\ AllConvert) /\ config[key] = Defaults[key]

\* The file names a router that is not supported.
NamesAnother ==
  /\ Holds("router_type") /\ Is("string", file.object["router_type"])
  /\ file.object["router_type"].string # Supported

(***************************************************************************)
(* One thing in the file ends the program: the name of another router, and *)
(* not where a router_ip of a wrong type has kept load() from reading it.  *)
(* It does end the program when every value is of its type.  A missing or  *)
(* broken file never does.                                                 *)
(***************************************************************************)
EndsByTypeOnly ==
  /\ at = "terminated" =>
       NamesAnother /\ (Holds("router_ip") => Is("string", file.object["router_ip"]))
  /\ at = "running" => ~(NamesAnother /\ AllConvert)

=============================================================================
