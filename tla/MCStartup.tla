------------------------------ MODULE MCStartup ------------------------------
(***************************************************************************)
(* Startup with every combination of keys that are absent, right or of a   *)
(* wrong type; a refresh_interval of each number type, within an int and   *)
(* beyond it.                                                              *)
(***************************************************************************)
EXTENDS Startup

MCText == {"192.168.1.1", "ZTE_F670L", "admin", "a", "ZTE_F660"}

str(s)  == [string |-> s]
none    == [absent |-> TRUE]
null    == [other |-> "null"]
num(n)  == [integer |-> n]
frac(n) == [real |-> n]

MCValues == [router_ip |-> {str("a"), num(1)},
             router_type |-> {str("ZTE_F670L"), str("ZTE_F660"), null},
             username |-> {str("a"), num(2)},
             auto_login |-> {[boolean |-> TRUE], num(1)},
             refresh_interval |-> {num(5), num(MaxInt + 2), frac(3), frac(MaxInt + 1),
                                   [boolean |-> TRUE], str("a")}]

\* Absent keys stand for themselves until they are dropped.
Choices == [router_ip : MCValues.router_ip \cup {none},
            router_type : MCValues.router_type \cup {none},
            username : MCValues.username \cup {none},
            auto_login : MCValues.auto_login \cup {none},
            refresh_interval : MCValues.refresh_interval \cup {none}]

MCObjects == {[k \in {j \in Keys : c[j] # none} |-> c[k]] : c \in Choices}

MCFiles == [kind : {"object"}, object : MCObjects] \cup
           [kind : {"missing", "discarded", "value"}, object : {[k \in {} |-> null]}]

=============================================================================
