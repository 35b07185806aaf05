-------------------------------- MODULE OemVars --------------------------------
(***************************************************************************)
(* generate_bios_oemvars and generate_blpolicy_oemvars: each signs a file  *)
(* of authenticated UEFI variables, and one with a time stamp a second     *)
(* later that clears them again. get_auth_data writes the stamp with the   *)
(* hour of a 12-hour clock.                                                *)
(*                                                                         *)
(* The device is external: it takes an authenticated variable whose signer *)
(* it trusts and whose stamp is later than the one it holds.               *)
(***************************************************************************)
EXTENDS Naturals, Sequences

CONSTANTS
  HourLength,   \* seconds of an hour
  Times         \* the values of option --timestamp, in seconds

Tools == {"bios", "blpolicy"}
Names == {"PK", "KEK", "db", "OAK", "BPM"}
None  == "none"

(* strftime("%Y-%m-%d %I:%M:%S"), read back by whoever compares two stamps:*)
(* %I counts the hours of a day 12, 1, ..., 11 twice.                      *)
Stamp(time) ==
  LET day   == time \div (24 * HourLength)
      hour  == (time \div HourLength) % 24
      shown == IF hour % 12 = 0 THEN 12 ELSE hour % 12
  IN  (day * 24 + shown) * HourLength + (time % HourLength)

Auth(name, value, signer, time) ==
  [name |-> name, value |-> value, signer |-> signer, stamp |-> Stamp(time)]

SetFile(tool, time) ==
  IF tool = "bios"
  THEN << Auth("db", "db cert", "KEK key", time),
          Auth("KEK", "KEK cert", "PK key", time),
          Auth("PK", "PK cert", "PK key", time) >>
  ELSE << Auth("OAK", "OAK digest", "ODM key", time),
          Auth("BPM", "policy", "ODM key", time) >>

ClearFile(tool, time) ==
  IF tool = "bios"
  THEN << Auth("PK", None, "PK key", time + 1) >>
  ELSE << Auth("OAK", None, "ODM key", time + 1),
          Auth("BPM", None, "ODM key", time + 1) >>

VARIABLES
  tool, timestamp,   \* the command line
  files,             \* the files written so far
  device,            \* each variable: its value, its stamp and who signed it
  flashing, line     \* the file being flashed, and its next variable

oemVars == <<tool, timestamp, files, device, flashing, line>>

Idle == "idle"
Empty == [value |-> None, stamp |-> 0, signer |-> None]

Init ==
  /\ tool \in Tools
  /\ timestamp \in Times
  /\ files = {}
  /\ device = [n \in Names |-> Empty]
  /\ flashing = Idle /\ line = 1

(* All variables of a file are signed before it is written: a signature    *)
(* that fails ends the program before that, maybe between the two files.   *)
WriteFile ==
  /\ files' = files \cup {IF files = {} THEN "set" ELSE "clear"}
  /\ UNCHANGED <<tool, timestamp, device, flashing, line>>

Content(file) == IF file = "set" THEN SetFile(tool, timestamp)
                                 ELSE ClearFile(tool, timestamp)

Flash ==
  /\ flashing = Idle
  /\ flashing' \in files
  /\ line' = 1
  /\ UNCHANGED <<tool, timestamp, files, device>>

(* In Setup Mode, without a PK, the three keys may be set by anyone; then  *)
(* PK signs PK and KEK, KEK signs db. A policy is changed by its signer.   *)
Trusted(a) ==
  \/ a.name \in {"db", "KEK", "PK"} /\ device["PK"].value = None
  \/ a.name = "db" /\ device["KEK"].value # None /\ a.signer = "KEK key"
  \/ a.name \in {"KEK", "PK"} /\ a.signer = "PK key"
  \/ a.name \in {"OAK", "BPM"} /\ device[a.name].signer \in {None, a.signer}

SetVariable ==
  /\ flashing # Idle
  /\ LET a == Content(flashing)[line]
     IN  device' = IF Trusted(a) /\ a.stamp > device[a.name].stamp
                   THEN [device EXCEPT ![a.name] =
                           [value |-> a.value, stamp |-> a.stamp,
                            signer |-> a.signer]]
                   ELSE device
  /\ IF line < Len(Content(flashing))
     THEN line' = line + 1 /\ UNCHANGED flashing
     ELSE line' = 1 /\ flashing' = Idle
  /\ UNCHANGED <<tool, timestamp, files>>

Next == WriteFile \/ Flash \/ SetVariable

Spec == Init /\ [][Next]_oemVars

-----------------------------------------------------------------------------

(* "Add 1 to the timestamp so it can always be unlocked; auth variables    *)
(* only apply for monotonically increasing values" (generate_bios_oemvars, *)
(* in like words generate_blpolicy_oemvars): when the last variable of the *)
(* clearing file was given to the device, the variable is clear.           *)
AlwaysUnlocked ==
  [][flashing = "clear" /\ SetVariable =>
       device'[Content("clear")[line].name].value = None]_oemVars
=============================================================================
