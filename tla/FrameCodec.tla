------------------------------ MODULE FrameCodec ------------------------------
(***************************************************************************)
(* The frame format of core/transport: WriteFrame and ReadFrame, as far as *)
(* lengths decide what the other side reads. A payload is its length; the  *)
(* cipher is external, of it only the nonce and the tag it adds count.     *)
(*                                                                         *)
(* The header holds the length of the payload in 16 bits and that of the   *)
(* random padding in 8; the length of the encrypted body, which is written *)
(* in 32 bits, does not wrap, since no slice is that long.                 *)
(***************************************************************************)
EXTENDS Naturals

MaxPayloadSize == 32768
MaxPaddingSize == 48

NonceSize == 12
TagSize == 16

\* The length of Encrypt's result for n bytes: nonce, ciphertext and tag.
Encrypt(n) == NonceSize + n + TagSize

\* What WriteFrame puts on the socket for a payload of n bytes and a random
\* padding of pad bytes, body being what it sealed.
WriteFrame(type, n, pad) ==
    [type       |-> type,
     payloadLen |-> n % 65536,
     padLen     |-> pad % 256,
     encLen     |-> Encrypt(n + pad),
     body       |-> n + pad]

\* Mutant of Accepted: the limit is the largest payload, without padding,
\* nonce and tag.
AcceptedUpToPayload(w) ==
    /\ w.encLen <= MaxPayloadSize
    /\ w.encLen = Encrypt(w.body)
    /\ w.body >= w.payloadLen + w.padLen

\* The checks of ReadFrame: the limit, the decryption, which succeeds only on
\* exactly what was sealed, and the lengths in the header.
Accepted(w) ==
    /\ w.encLen <= MaxPayloadSize + 1024
    /\ w.encLen = Encrypt(w.body)
    /\ w.body >= w.payloadLen + w.padLen

ReadError == [type |-> "error", len |-> 0]

ReadFrame(w) ==
    IF Accepted(w) THEN [type |-> w.type, len |-> w.payloadLen] ELSE ReadError
=============================================================================
