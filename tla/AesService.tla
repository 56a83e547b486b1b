----------------------------- MODULE AesService -----------------------------
(***************************************************************************)
(* What an AES engine promises each caller, whatever it keeps between the  *)
(* calls: a call ends with an error, or with exactly the bytes and the tag *)
(* the reference computes from that call's own arguments; and a GCM        *)
(* decryption hands out plaintext only for a tag that matches.  No call    *)
(* sees another one, a key schedule or a buffer of an earlier one, or the  *)
(* device.  The promise is the CPU library's behaviour, which the tests    *)
(* of crypto_aes_opencl compare the OpenCL library with.                   *)
(***************************************************************************)
EXTENDS AesReference

CONSTANTS
  Callers,      \* the threads that call the library
  Requests,     \* the argument lists they may pass
  None,         \* no request, no tag, no answer yet
  Untouched     \* an output the call has not written

VARIABLES
  asked,        \* asked[c]: the request c waits for, or None
  answer        \* answer[c]: how c's last call ended, None inside a call

serviceVars == <<asked, answer>>

Mode(r) == IF r.op \in {"ctr_xor", "ctr_xor_round_keys"} THEN "ctr" ELSE "gcm"

\* GCM spends the first counter block on the tag; CTR calls name their own.
FirstBlock(r) == IF r.op \in {"gcm_encrypt", "gcm_decrypt"} THEN 1 ELSE r.offset

Output(r) == Xor(r.text, Keystream(r.key, r.iv, Mode(r), FirstBlock(r)))

\* The tag covers the ciphertext: what encryption produces, what decryption is given.
Ciphertext(r)  == IF r.op = "gcm_encrypt" /\ r.text.len > 0 THEN Output(r) ELSE r.text
ExpectedTag(r) == GcmTag(r.key, r.iv, GhashBlocks(r.aad, Ciphertext(r)))

\* The tag a decryption is given matches its other arguments.
Authentic(r) == r.tag = ExpectedTag(r)

\* An empty text leaves the caller's output buffer alone.
CorrectOutput(r) == IF r.text.len = 0 THEN Untouched ELSE Output(r)

\* a = [status, out, tag] is an answer the caller of r may be given.
Permitted(r, a) ==
  /\ a.status = "OK" => a.out = CorrectOutput(r)
  /\ a.status = "OK" /\ r.op = "gcm_encrypt" => a.tag = ExpectedTag(r)
  /\ a.status = "AUTH_FAILED" => r.op = "gcm_decrypt" /\ ~Authentic(r)
  /\ r.op = "gcm_decrypt" /\ ~Authentic(r) => a.status # "OK" /\ a.out = Untouched

NoAnswer == [status |-> "none", out |-> Untouched, tag |-> None]

Init ==
  /\ asked = [c \in Callers |-> None]
  /\ answer = [c \in Callers |-> NoAnswer]

Ask(c) ==
  /\ asked[c] = None
  /\ \E r \in Requests : asked' = [asked EXCEPT ![c] = r]
  /\ answer' = [answer EXCEPT ![c] = NoAnswer]

Answer(c) ==
  /\ asked[c] # None
  /\ Permitted(asked[c], answer'[c])
  /\ answer' = [answer EXCEPT ![c] = answer'[c]]
  /\ asked' = [asked EXCEPT ![c] = None]

Next == \E c \in Callers : Ask(c) \/ Answer(c)

Spec == Init /\ [][Next]_serviceVars
=============================================================================
