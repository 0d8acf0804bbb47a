----------------------------- MODULE BleParsing -----------------------------
(***************************************************************************)
(* The index arithmetic on Bluetooth advertisements (src/src/bleutils.rs)  *)
(* and the tests of their callers in src/src/main.rs.  A frame is the      *)
(* number of its hexadecimal characters, two for each byte that was        *)
(* received, the character where the preamble was found, which may be in   *)
(* the middle of a byte, and what matters of its payload.                  *)
(* Decryption is a library: it opens what was sealed for the device.       *)
(*                                                                         *)
(* A slice [a, b) of n elements panics unless 0 <= a <= b <= n.            *)
(***************************************************************************)
EXTENDS Integers

CONSTANT None    \* no preamble in the frame; a payload that cannot be opened

SliceFails(a, b, n) == ~(0 <= a /\ a <= b /\ b <= n)

-----------------------------------------------------------------------------
(***************************************************************************)
(* Contact sensors.  handle_ble_contact_update adds a byte for the length  *)
(* in front and one for the signal strength behind.                        *)
(***************************************************************************)

LongEnough(f) == f.chars >= 58

Size(f)  == f.chars \div 2 + 2
Start(f) == (f.preamble + 2) \div 2

DeviceTypeFails(f) == SliceFails(Start(f) + 5, Start(f) + 7, Size(f))
AppNonceFails(f)   == SliceFails(Start(f) + 7, Start(f) + 8, Size(f))
EncryptedFails(f)  == SliceFails(Start(f) + 14, Size(f) - 1, Size(f))

\* The encrypted part: the cypher text, 3 bytes of counter and 4 of token, which
\* are taken from its end.
EncryptedSize(f) == (Size(f) - 1) - (Start(f) + 14)

CounterFails(f) ==
    SliceFails(EncryptedSize(f) - 7, EncryptedSize(f) - 4, EncryptedSize(f))

\* An empty plain text is indexed at its second character.
PlainFails(f) == f.object # None /\ EncryptedSize(f) = 7

ContactFails(f) ==
    \/ DeviceTypeFails(f) \/ AppNonceFails(f) \/ EncryptedFails(f)
    \/ CounterFails(f) \/ PlainFails(f)

\* What becomes of an advertisement of a contact; object 9 says whether it is
\* open.
ContactFate(f) ==
    IF ~LongEnough(f) \/ f.preamble = None \/ Start(f) + 7 > Size(f) THEN "ignored"
    ELSE IF ContactFails(f) THEN "panic"
    ELSE IF f.object = 9 THEN "decoded" ELSE "ignored"

-----------------------------------------------------------------------------
(***************************************************************************)
(* Thermometers.  The length byte stands before the preamble and counts    *)
(* the bytes behind itself.                                                *)
(***************************************************************************)

AtcSize(f) == (f.chars - f.preamble + 2) \div 2

\* (Mutant: the length is not compared with the bytes there are.)
AnyAtcLength(f) == AtcSize(f) % 256 > 8 /\ f.length > 7

AtcAccepted(f) == AtcSize(f) % 256 > 8 /\ f.length <= AtcSize(f) % 256 /\ f.length > 7

AtcFails(f) ==
    \/ f.preamble < 2
    \/ (f.chars - f.preamble) % 2 = 1
    \/ AtcAccepted(f) /\ SliceFails(0, f.length + 1, AtcSize(f))

\* The plain text: what follows length and preamble, without 4 bytes of checksum.
AtcPlain(f) == (f.length + 1) - 5 - 4

AtcFate(f) ==
    IF f.preamble = None THEN "ignored"
    ELSE IF AtcFails(f) THEN "panic"
    ELSE IF AtcAccepted(f) /\ f.object # None /\ AtcPlain(f) \in {3, 6}
         THEN "decoded" ELSE "ignored"
=============================================================================
