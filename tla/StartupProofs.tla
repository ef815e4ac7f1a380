---------------------------- MODULE StartupProofs ----------------------------
(***************************************************************************)
(* Proofs about Startup: the configuration the program starts with and the *)
(* way a file can end it, whatever the file holds.                         *)
(***************************************************************************)
EXTENDS Startup, TLAPS

-----------------------------------------------------------------------------
(* The inductive invariant *)

\* The key at place i has been applied, or it has its default.
AppliedAt(i) ==
  LET key == KeyOrder[i]
  IN  IF i < next /\ Holds(key)
        THEN /\ Converts(key, file.object[key])
             /\ config[key] \in Converted(key, file.object[key])
        ELSE config[key] = Defaults[key]

\* Why load() stopped: after the last key, before the first, or at a value of
\* a wrong type.
Stopped ==
  \/ next = 6
  \/ next = 1 /\ file.kind \in {"missing", "discarded"}
  \/ /\ next \in 1..5 /\ Holds(KeyOrder[next])
     /\ ~Converts(KeyOrder[next], file.object[KeyOrder[next]])

IInv ==
  /\ TypeOK
  /\ \A i \in 1..5 : AppliedAt(i)
  /\ at = "open" => next = 1
  /\ at \notin {"open", "apply"} => Stopped
  /\ at \in {"running", "terminated"} => at = Created(config.router_type)

-----------------------------------------------------------------------------
(* The keys *)

\* The keys and their places.
LEMMA KeyPlaces ==
  /\ Len(KeyOrder) = 5
  /\ \A i \in 1..5 : KeyOrder[i] \in Keys
  /\ \A i, j \in 1..5 : KeyOrder[i] = KeyOrder[j] => i = j
  /\ \A key \in Keys : \E i \in 1..5 : key = KeyOrder[i]
<1>1. KeyOrder = <<"router_ip", "router_type", "username", "auto_login", "refresh_interval">>
  BY DEF KeyOrder
<1>2. /\ KeyOrder[1] = "router_ip" /\ KeyOrder[2] = "router_type" /\ KeyOrder[3] = "username"
      /\ KeyOrder[4] = "auto_login" /\ KeyOrder[5] = "refresh_interval" /\ Len(KeyOrder) = 5
  BY <1>1
<1>3. \A i \in 1..5 : i = 1 \/ i = 2 \/ i = 3 \/ i = 4 \/ i = 5
  OBVIOUS
<1>4. \A i, j \in 1..5 : KeyOrder[i] = KeyOrder[j] => i = j
  BY <1>2, <1>3
<1> QED
  BY <1>2, <1>4 DEF Keys

\* Place() is the inverse of KeyOrder.
LEMMA PlaceOf == ASSUME NEW i \in 1..5 PROVE Place(KeyOrder[i]) = i
  BY KeyPlaces DEF Place

\* The five keys one by one.
LEMMA KeyNames ==
  /\ KeyOrder[1] = "router_ip" /\ KeyOrder[2] = "router_type" /\ KeyOrder[3] = "username"
  /\ KeyOrder[4] = "auto_login" /\ KeyOrder[5] = "refresh_interval"
  /\ Keys = {"router_ip", "router_type", "username", "auto_login", "refresh_interval"}
<1>1. /\ KeyOrder[1] = "router_ip" /\ KeyOrder[2] = "router_type" /\ KeyOrder[3] = "username"
      /\ KeyOrder[4] = "auto_login" /\ KeyOrder[5] = "refresh_interval"
  BY DEF KeyOrder
<1>2. 1..5 = {1, 2, 3, 4, 5}
  OBVIOUS
<1> QED
  BY <1>1, <1>2 DEF Keys

\* The type of the member a key is read into.
MemberType(key) ==
  CASE key = "auto_login" -> BOOLEAN
    [] key = "refresh_interval" -> MinInt..MaxInt
    [] OTHER -> Text

\* An int is what remains of any integer.
LEMMA ToIntInRange == ASSUME NEW n \in Int PROVE ToInt(n) \in MinInt..MaxInt
<1>1. MaxInt \in Int /\ MaxInt >= 30 /\ MinInt \in Int /\ MinInt = -MaxInt - 1
  BY StartupAssumption DEF MinInt
<1> DEFINE width == MaxInt - MinInt + 1
           d == n - MinInt
<1>2. width \in Int /\ width > 0 /\ d \in Int
  BY <1>1
<1> HIDE DEF d
<1>3. d % width \in 0..width - 1
  <2> HIDE DEF width
  <2> QED BY <1>2
<1>4. ToInt(n) = (d % width) + MinInt
  BY DEF ToInt, d
<1> QED
  BY <1>1, <1>3, <1>4

\* Converted() by the type of the value, which has one type only.
LEMMA ConvertedBy ==
  ASSUME NEW key, NEW v \in Json
  PROVE  /\ Is("string", v) => Converted(key, v) = {v.string}
         /\ Is("boolean", v) =>
              Converted(key, v) = {IF key = "auto_login" THEN v.boolean ELSE IF v.boolean THEN 1 ELSE 0}
         /\ Is("integer", v) => Converted(key, v) = {ToInt(v.integer)}
         /\ Is("real", v) =>
              Converted(key, v) = IF v.real \in MinInt..MaxInt THEN {v.real} ELSE {MinInt, MaxInt}
<1> DEFINE ofString  == {v.string}
           ofBoolean == {IF key = "auto_login" THEN v.boolean ELSE IF v.boolean THEN 1 ELSE 0}
           ofInteger == {ToInt(v.integer)}
           ofReal    == IF v.real \in MinInt..MaxInt THEN {v.real} ELSE {MinInt, MaxInt}
<1>1. Converted(key, v) = CASE Is("string", v)  -> ofString
                            [] Is("boolean", v) -> ofBoolean
                            [] Is("integer", v) -> ofInteger
                            [] Is("real", v)    -> ofReal
  BY DEF Converted
<1>2. \A a, b \in {"string", "boolean", "integer", "real"} : Is(a, v) /\ Is(b, v) => a = b
  BY DEF Is, Json
<1> HIDE DEF ofString, ofBoolean, ofInteger, ofReal
<1>3. /\ Is("string", v) => Converted(key, v) = ofString
      /\ Is("boolean", v) => Converted(key, v) = ofBoolean
      /\ Is("integer", v) => Converted(key, v) = ofInteger
      /\ Is("real", v) => Converted(key, v) = ofReal
  BY <1>1, <1>2
<1> QED
  BY <1>3 DEF ofString, ofBoolean, ofInteger, ofReal

\* A conversion that succeeds yields a value of the member's type.
LEMMA ConvertedType ==
  ASSUME NEW key \in Keys, NEW v \in Json, Converts(key, v)
  PROVE  Converted(key, v) \subseteq MemberType(key)
<1>1. CASE v \in [string : Text]
  <2>1. Is("string", v) /\ ~Is("boolean", v) /\ ~Is("integer", v) /\ ~Is("real", v)
    BY <1>1 DEF Is
  <2>2. v.string \in Text /\ Converted(key, v) = {v.string}
    BY <1>1, <2>1, ConvertedBy
  <2> QED
    BY <2>1, <2>2 DEF Converts, MemberType
<1>2. CASE v \in [boolean : BOOLEAN]
  <2>1. ~Is("string", v) /\ Is("boolean", v)
    BY <1>2 DEF Is
  <2>2. key \in {"auto_login", "refresh_interval"}
    BY <2>1 DEF Converts
  <2>3. v.boolean \in BOOLEAN
    BY <1>2
  <2>4. Converted(key, v) = {IF key = "auto_login" THEN v.boolean ELSE IF v.boolean THEN 1 ELSE 0}
    BY <2>1, ConvertedBy
  <2>5. 0 \in MinInt..MaxInt /\ 1 \in MinInt..MaxInt
    BY StartupAssumption DEF MinInt
  <2>6. CASE key = "auto_login"
    BY <2>3, <2>4, <2>6 DEF MemberType
  <2>7. CASE key = "refresh_interval"
    BY <2>4, <2>5, <2>7 DEF MemberType
  <2> QED
    BY <2>2, <2>6, <2>7
<1>3. CASE v \in [integer : Int]
  <2>1. ~Is("string", v) /\ ~Is("boolean", v) /\ Is("integer", v)
    BY <1>3 DEF Is
  <2>2. key = "refresh_interval"
    BY <2>1 DEF Converts
  <2>3. Converted(key, v) = {ToInt(v.integer)} /\ v.integer \in Int
    BY <1>3, <2>1, ConvertedBy
  <2> QED
    BY <2>2, <2>3, ToIntInRange DEF MemberType
<1>4. CASE v \in [real : Int]
  <2>1. ~Is("string", v) /\ ~Is("boolean", v) /\ ~Is("integer", v) /\ Is("real", v)
    BY <1>4 DEF Is
  <2>2. key = "refresh_interval"
    BY <2>1 DEF Converts
  <2>3. Converted(key, v) = IF v.real \in MinInt..MaxInt THEN {v.real} ELSE {MinInt, MaxInt}
    BY <2>1, ConvertedBy
  <2>4. {MinInt, MaxInt} \subseteq MinInt..MaxInt
    BY StartupAssumption DEF MinInt
  <2> QED
    BY <2>2, <2>3, <2>4 DEF MemberType
<1>5. CASE v \in [other : {"null"}]
  BY <1>5 DEF Converts, Is
<1> QED
  BY <1>1, <1>2, <1>3, <1>4, <1>5 DEF Json

\* Setting one member to a value of its type keeps the configuration well typed.
LEMMA SetMember ==
  ASSUME NEW c \in AppConfig, NEW key \in Keys, NEW v \in MemberType(key)
  PROVE  /\ [c EXCEPT ![key] = v] \in AppConfig
         /\ [c EXCEPT ![key] = v][key] = v
         /\ \A k \in Keys \ {key} : [c EXCEPT ![key] = v][k] = c[k]
<1> DEFINE d == [c EXCEPT ![key] = v]
<1>1. DOMAIN c = Keys
  BY KeyNames DEF AppConfig
<1>2. d[key] = v /\ \A k \in Keys \ {key} : d[k] = c[k]
  BY <1>1
<1>3. d \in AppConfig
  BY KeyNames DEF AppConfig, MemberType
<1> QED
  BY <1>2, <1>3

-----------------------------------------------------------------------------
(* Every step keeps the invariant *)

\* An object's values are JSON values.
LEMMA FileValue ==
  ASSUME file \in Files, NEW key, Holds(key)
  PROVE  file.object[key] \in Json
  BY StartupAssumption DEF IsFile, Holds

LEMMA InitIInv == Init => IInv
<1> SUFFICES ASSUME Init PROVE IInv
  OBVIOUS
<1>1. Defaults \in AppConfig
  BY StartupAssumption DEF Defaults, AppConfig, MinInt, Supported
<1> QED
  BY <1>1 DEF Init, IInv, TypeOK, AppliedAt

LEMMA OpenIInv == IInv /\ Open => IInv'
<1> SUFFICES ASSUME IInv, Open PROVE IInv'
  OBVIOUS
<1>1. TypeOK' /\ (\A i \in 1..5 : AppliedAt(i))'
  BY DEF IInv, Open, TypeOK, AppliedAt, Holds
<1>2. at' = "create" => Stopped'
  BY DEF IInv, Open, Stopped
<1> QED
  BY <1>1, <1>2 DEF IInv, Open

LEMMA ApplyKeyIInv == IInv /\ ApplyKey => IInv'
<1> SUFFICES ASSUME IInv, ApplyKey PROVE IInv'
  OBVIOUS
<1> DEFINE key == KeyOrder[next]
<1>1. /\ at = "apply" /\ next \in 1..5 /\ key \in Keys
      /\ file' = file /\ file \in Files /\ config \in AppConfig
  BY KeyPlaces DEF IInv, ApplyKey, TypeOK
<1>2. CASE ~Holds(key)
  <2>1. next' = next + 1 /\ at' = at /\ config' = config
    BY <1>2 DEF ApplyKey
  <2>2. ASSUME NEW i \in 1..5 PROVE AppliedAt(i)'
    BY <1>1, <1>2, <2>1 DEF IInv, AppliedAt, Holds
  <2> QED
    BY <1>1, <2>1, <2>2 DEF IInv, TypeOK
<1>3. CASE Holds(key) /\ Converts(key, file.object[key])
  <2>1. PICK v \in Converted(key, file.object[key]) :
          config' = [config EXCEPT ![key] = v] /\ next' = next + 1 /\ at' = at
    BY <1>3 DEF ApplyKey
  <2>2. v \in MemberType(key)
    BY <1>1, <1>3, <2>1, FileValue, ConvertedType
  <2>3. /\ config' \in AppConfig /\ config'[key] = v
        /\ \A k \in Keys \ {key} : config'[k] = config[k]
    <3> HIDE DEF key
    <3>1. /\ [config EXCEPT ![key] = v] \in AppConfig
          /\ [config EXCEPT ![key] = v][key] = v
          /\ \A k \in Keys \ {key} : [config EXCEPT ![key] = v][k] = config[k]
      BY <1>1, <2>2, SetMember
    <3> QED
      BY <2>1, <3>1
  <2>4. ASSUME NEW i \in 1..5 PROVE AppliedAt(i)'
    <3>1. CASE i = next
      BY <1>1, <1>3, <2>1, <2>3, <3>1 DEF AppliedAt, Holds
    <3>2. CASE i # next
      <4>1. KeyOrder[i] \in Keys \ {key}
        BY <1>1, <3>2, KeyPlaces
      <4>2. config'[KeyOrder[i]] = config[KeyOrder[i]]
        BY <2>3, <4>1
      <4>3. i < next <=> i < next'
        BY <1>1, <2>1, <3>2
      <4> HIDE DEF key
      <4> QED
        BY <1>1, <4>2, <4>3 DEF IInv, AppliedAt, Holds
    <3> QED
      BY <3>1, <3>2
  <2> QED
    BY <1>1, <2>1, <2>3, <2>4 DEF IInv, TypeOK
<1>4. CASE Holds(key) /\ ~Converts(key, file.object[key])
  <2>1. at' = "create" /\ next' = next /\ config' = config
    BY <1>4 DEF ApplyKey, Caught
  <2>2. Stopped'
    BY <1>1, <1>4, <2>1 DEF Stopped, Holds
  <2> QED
    BY <1>1, <2>1, <2>2 DEF IInv, TypeOK, AppliedAt, Holds
<1> QED
  BY <1>2, <1>3, <1>4

LEMMA LoadedIInv == IInv /\ Loaded => IInv'
<1> SUFFICES ASSUME IInv, Loaded PROVE IInv'
  OBVIOUS
<1>1. Stopped'
  BY KeyPlaces DEF IInv, TypeOK, Loaded, Stopped
<1> QED
  BY <1>1 DEF IInv, Loaded, TypeOK, AppliedAt, Holds

LEMMA CreateIInv == IInv /\ Create => IInv'
<1> SUFFICES ASSUME IInv, Create PROVE IInv'
  OBVIOUS
<1>1. at' \in {"running", "terminated"}
  BY DEF Create, Created
<1>2. Stopped'
  BY DEF IInv, Create, Stopped, Holds
<1> QED
  BY <1>1, <1>2 DEF IInv, Create, TypeOK, AppliedAt, Holds

LEMMA NextIInv == IInv /\ [Next]_vars => IInv'
<1> SUFFICES ASSUME IInv, [Next]_vars PROVE IInv'
  OBVIOUS
<1>1. CASE UNCHANGED vars
  BY <1>1 DEF vars, IInv, TypeOK, AppliedAt, Stopped, Holds
<1>2. CASE Started
  BY <1>1, <1>2 DEF Started
<1> QED
  BY <1>1, <1>2, OpenIInv, ApplyKeyIInv, LoadedIInv, CreateIInv DEF Next

-----------------------------------------------------------------------------
(* The theorems *)

\* The invariant holds in every state.
THEOREM Invariance == Spec => []IInv
<1>1. Init => IInv
  BY InitIInv
<1>2. IInv /\ [Next]_vars => IInv'
  BY NextIInv
<1> QED
  BY <1>1, <1>2, PTL DEF Spec

\* Every member of the configuration has its type, an int among the ints,
\* whatever load() found in the file.
THEOREM TypeCorrect == Spec => []TypeOK
<1>1. IInv => TypeOK
  BY DEF IInv
<1> QED
  BY <1>1, Invariance, PTL

\* What the code does with a value of a wrong type: the keys before it keep
\* the file's values.
FilesUpToTheStop ==
  at \in {"create", "running", "terminated"} =>
    \A key \in Keys :
      IF Holds(key) /\ ReachedBy(key) THEN config[key] \in Converted(key, file.object[key])
                                      ELSE config[key] = Defaults[key]

\* When load() has stopped, a key before the place it stopped at has the
\* file's value, and it was no obstacle; a key from there on has its default.
LEMMA IInvConfig == IInv => FilesUpToTheStop
<1> SUFFICES ASSUME IInv, at \in {"create", "running", "terminated"}, NEW key \in Keys
             PROVE  IF Holds(key) /\ ReachedBy(key) THEN config[key] \in Converted(key, file.object[key])
                                                   ELSE config[key] = Defaults[key]
  BY DEF FilesUpToTheStop
<1>1. PICK p \in 1..5 : key = KeyOrder[p]
  BY KeyPlaces
<1>2. Place(key) = p
  BY <1>1, PlaceOf
<1>3. Stopped /\ next \in 1..6 /\ \A i \in 1..5 : AppliedAt(i)
  BY DEF IInv, TypeOK
<1>4. CASE p < next
  <2>1. ReachedBy(key)
    <3> SUFFICES ASSUME NEW i \in 1..p, Holds(KeyOrder[i])
                 PROVE  Converts(KeyOrder[i], file.object[KeyOrder[i]])
      BY <1>2 DEF ReachedBy
    <3>1. i \in 1..5 /\ i < next
      BY <1>3, <1>4
    <3> QED
      BY <1>3, <3>1 DEF AppliedAt
  <2> QED
    BY <1>1, <1>3, <1>4, <2>1 DEF AppliedAt
<1>5. CASE next <= p
  <2>1. config[key] = Defaults[key]
    BY <1>1, <1>3, <1>5 DEF AppliedAt
  <2>2. CASE file.kind \in {"missing", "discarded"}
    BY <2>1, <2>2 DEF Holds
  <2>3. CASE Holds(KeyOrder[next]) /\ ~Converts(KeyOrder[next], file.object[KeyOrder[next]])
    <3>1. ~ReachedBy(key)
      BY <1>2, <1>3, <1>5, <2>3 DEF ReachedBy
    <3> QED
      BY <2>1, <3>1
  <2> QED
    BY <1>3, <1>5, <2>2, <2>3 DEF Stopped
<1> QED
  BY <1>3, <1>4, <1>5

\* A file whose values are all of their types stops nothing.
LEMMA AllReached == ASSUME AllConvert, NEW key \in Keys PROVE ReachedBy(key)
<1>1. Place(key) \in 1..5
  BY KeyPlaces, PlaceOf
<1>2. \A i \in 1..Place(key) : KeyOrder[i] \in Keys
  BY <1>1, KeyPlaces
<1> QED
  BY <1>2 DEF AllConvert, ReachedBy

\* The configuration the program goes on with is the file's, with the defaults
\* for what the file leaves out, and uses no value from the first of a wrong
\* type on, for every file.
THEOREM ConfigFromFile == Spec => []ConfigIsTheFiles
<1>1. IInv => ConfigIsTheFiles
  BY IInvConfig, AllReached DEF FilesUpToTheStop, ConfigIsTheFiles
<1> QED
  BY <1>1, Invariance, PTL

\* The router type that decides is the file's when router_ip did not stop
\* load() before it, and the supported one otherwise.
LEMMA IInvEnds == IInv => EndsByTypeOnly
<1> SUFFICES ASSUME IInv, at \in {"running", "terminated"} PROVE EndsByTypeOnly
  BY DEF EndsByTypeOnly
<1>1. /\ \A key : Holds(key) => file.object[key] \in Json
      /\ at = "terminated" <=> config.router_type # Supported
  BY FileValue DEF IInv, TypeOK, Created
<1>2. FilesUpToTheStop
  BY IInvConfig
<1>3. "router_type" \in Keys /\ Place("router_type") = 2
  BY KeyNames, PlaceOf
<1>4. ReachedBy("router_type") <=>
        /\ Holds("router_ip") => Is("string", file.object["router_ip"])
        /\ Holds("router_type") => Is("string", file.object["router_type"])
  <2>1. 1..2 = {1, 2}
    OBVIOUS
  <2>2. KeyOrder[1] = "router_ip" /\ KeyOrder[2] = "router_type"
    BY KeyNames
  <2> QED
    BY <1>3, <2>1, <2>2 DEF ReachedBy, Converts
<1>5. AllConvert => ReachedBy("router_type")
  BY <1>3, AllReached
<1>6. CASE Holds("router_type") /\ ReachedBy("router_type")
  <2>1. Is("string", file.object["router_type"])
    BY <1>4, <1>6
  <2>2. config.router_type \in Converted("router_type", file.object["router_type"])
    BY <1>2, <1>3, <1>6 DEF FilesUpToTheStop
  <2>3. config.router_type = file.object["router_type"].string
    BY <1>1, <1>6, <2>1, <2>2, ConvertedBy
  <2> QED
    BY <1>1, <1>4, <1>6, <2>1, <2>3 DEF EndsByTypeOnly, NamesAnother
<1>7. CASE ~(Holds("router_type") /\ ReachedBy("router_type"))
  <2>1. config.router_type = Supported
    BY <1>2, <1>3, <1>7 DEF FilesUpToTheStop, Defaults
  <2> QED
    BY <1>1, <1>4, <1>5, <1>7, <2>1 DEF EndsByTypeOnly, NamesAnother
<1> QED
  BY <1>6, <1>7

\* The name of another router ends the program, and nothing else in any file
\* does.
THEOREM EndsByType == Spec => []EndsByTypeOnly
  BY IInvEnds, Invariance, PTL

=============================================================================
