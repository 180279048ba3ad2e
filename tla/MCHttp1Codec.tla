---------------------------- MODULE MCHttp1Codec ----------------------------
(* Values for the constants of Http1Codec.                                 *)
EXTENDS Http1Codec

MCRequestLines == {[method |-> "GET", target |-> "/a"]}

MCNames == [word : {"host"}, upper : BOOLEAN]
             \cup [word : {"x", "content-length", "transfer-encoding"}, upper : {FALSE}]

MCStoull == "0" :> 0 @@ "2" :> 2
=============================================================================
