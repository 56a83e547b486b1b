---------------------------- MODULE MCSingleFile ----------------------------
(* A small instance of SingleFile: two paths, two passwords, two texts (no bytes *)
(* at all, and ragged with a zero at the end), packages of other programs        *)
(* with the two kinds of header length, one that is not accepted and one without *)
(* its end.                                                                      *)
EXTENDS SingleFile

Texts == {Text("empty"), Text("odd")}

MCEmpty(file) == file = Text("empty")
MCEndsInZeros(file) == file = Text("odd")

\* A package of CBC or CTR has 52 bytes of header and whole blocks, one of GCM has 64 bytes
\* and as many more as its text.
MCRagged(file) ==
  \/ file = Text("odd")
  \/ file.kind = "package" /\
       (file.info.algorithm = "Gcm" /\ file.payload.kind = "cipher" =>
          file.payload.text = Text("odd"))

\* Package 101 is GCM, 102 is CTR; both belong to the password "p".
Old(algorithm, n) ==
  LET info == Chosen([algorithm |-> algorithm, padding |-> "Pkcs7", keySizeBits |-> 256], n)
      payload == Encrypted(Text(algorithm), info, "p")
  IN PackageFile([info EXCEPT !.tag = TagOf(payload, info)], payload)

NoIterations == LET old == Old("Gcm", 101) IN [old EXCEPT !.info.iterationCount = 0]

\* Its header fits the payload of NoIterations, and neither of the two opens.
Truncated == [Old("Gcm", 101) EXCEPT !.payload = Partial]

OtherFiles == Texts \cup {Old("Gcm", 101), Old("Ctr", 102), NoIterations, Truncated}

Request(encrypt, engine, algorithm, password, input, output, cross) ==
  [encrypt |-> encrypt, engine |-> engine, algorithm |-> algorithm, padding |-> "Pkcs7",
   keySizeBits |-> IF engine = "OpenCl" THEN 128 ELSE 256,
   password |-> password, input |-> input, output |-> output, cross |-> cross]

Padded(request, padding) == [request EXCEPT !.padding = padding]

SomeRequests ==
  {Request(TRUE, "NativeCpu", "Gcm", "p", "a", "b", FALSE),
   Padded(Request(TRUE, "OpenCl", "Ctr", "p", "a", "b", TRUE), "Zero"),
   Request(TRUE, "OpenCl", "Cbc", "p", "a", "b", FALSE),
   Padded(Request(TRUE, "NativeCpu", "Cbc", "p", "a", "b", FALSE), "None"),
   Request(TRUE, "NativeCpu", "Gcm", "", "a", "b", FALSE),
   Request(FALSE, "NativeCpu", "Gcm", "p", "b", "a", TRUE),
   Request(FALSE, "OpenCl", "Gcm", "q", "b", "a", FALSE),
   Request(FALSE, "OpenCl", "Gcm", "p", "b", "b", FALSE)}
=============================================================================
