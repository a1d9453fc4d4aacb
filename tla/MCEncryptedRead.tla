-------------------------- MODULE MCEncryptedRead --------------------------
(* Instances of EncryptedRead for TLC. *)
EXTENDS EncryptedRead

=============================================================================
