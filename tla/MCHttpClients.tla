---------------------------- MODULE MCHttpClients ----------------------------
(***************************************************************************)
(* HttpClients with answers of up to two header lines, expected or not, a  *)
(* cookie set twice among them, and bodies of up to two pieces.            *)
(***************************************************************************)
EXTENDS HttpClients

CONSTANTS v1, v2, piece

MCValues == {v1, v2}

header(name, cookie, value) == [name |-> name, cookie |-> cookie, value |-> value]

MCLines ==
  {header("Set-Cookie", "SID", v) : v \in MCValues} \cup
  {header("Location", NoCookie, v) : v \in MCValues} \cup
  {header("Set-Cookie", NoCookie, v1), header("set-cookie", "SID", v1),
   header("location", NoCookie, v1), header("Content-Location", NoCookie, v1)}

MCAnswers == [status : {200, 302}, lines : BoundedSeq(MCLines, 2), body : BoundedSeq({piece}, 2)]

=============================================================================
