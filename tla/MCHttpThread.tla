---------------------------- MODULE MCHttpThread ----------------------------
(***************************************************************************)
(* HttpThread on small instances, and the decoding of the credentials that *)
(* its requests carry on short strings of the bytes at the ends of the     *)
(* range and of its halves.                                                *)
(***************************************************************************)
EXTENDS HttpThread, Base64

(***************************************************************************)
(* What a client encoded is what base64_decode returns.                    *)
(***************************************************************************)
ASSUME CredentialsDecoded == DecodesEncoded({0, 1, 127, 128, 255}, 4)

(***************************************************************************)
(* A line break in it is skipped if the stack held 0 in its place of       *)
(* inalphabet, and is decoded as a letter if it did not.                   *)
(***************************************************************************)
ASSUME LineBreakSkipped == IgnoresOutside({0, 1, 255}, 3, Skip)

ASSUME LineBreakDecoded == ~IgnoresOutside({0, 1, 255}, 3, 5)
=============================================================================
