----------------------------- MODULE MCSessionIO -----------------------------
(* Small instances of SessionIO for TLC. *)
EXTENDS SessionIO

(* A header of two bytes, so that a read can end inside it, payloads of    *)
(* none or one byte, and one that declares more than the maximum.          *)
P(kind, body) == [kind |-> kind, body |-> body]
SomePackets == {P("plain", 1), P("echo", 0), P("bye", 0), P("plain", 2)}
=============================================================================
