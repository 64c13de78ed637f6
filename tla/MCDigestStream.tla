---------------------------- MODULE MCDigestStream ----------------------------
(* DigestStream with blocks of four bytes and words of five bits. *)
EXTENDS DigestStream
=============================================================================
