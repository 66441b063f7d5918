------------------------------ MODULE MqttPid -------------------------------
(***************************************************************************)
(* The packet identifiers of the MQTT client: __mqtt_next_pid of           *)
(* src/source/fun_protocol/mqtt/e_mqtt.c steps a 16-bit linear feedback    *)
(* shift register until it holds an identifier no queued message has.      *)
(* MqttClient numbers identifiers by their place in the register's cycle;  *)
(* this module shows that the cycle is the longest there is.               *)
(***************************************************************************)
EXTENDS Integers

VARIABLES
    pid_lfsr,   \* client->pid_lfsr
    steps       \* how many times the register was stepped, modulo the cycle

vars == <<pid_lfsr, steps>>

Seed     == 163
LastStep == 65535       \* the number of non-zero 16-bit values

\* x ^ (1 << b)
Flip(x, b) == IF (x \div 2^b) % 2 = 1 THEN x - 2^b ELSE x + 2^b

\* Faulty taps: 0xB000.
ShiftWrongTaps(x) ==
    LET half == x \div 2
    IN  IF x % 2 = 1 THEN Flip(Flip(Flip(half, 15), 13), 12) ELSE half

\* Shift right by one; when a 1 falls out, exclusive-or with 0xB400.
Shift(x) ==
    LET half == x \div 2
    IN  IF x % 2 = 1 THEN Flip(Flip(Flip(Flip(half, 15), 13), 12), 10) ELSE half

Init == pid_lfsr = Seed /\ steps = 0

Step ==
    /\ pid_lfsr' = Shift(pid_lfsr)
    /\ steps' = (steps % LastStep) + 1

Next == Step

Spec == Init /\ [][Next]_vars

\* The register is never 0 and runs through every other 16-bit value before
\* it is back at its seed ("Packet ID's are generated using a max-length
\* LFSR", e_mqtt.h): an identifier is used again only after 65534 others.
\* Shift is one-to-one on these values, so the seed is the first to recur.
MaxLength ==
    /\ pid_lfsr \in 1..LastStep
    /\ pid_lfsr = Seed <=> steps \in {0, LastStep}
=============================================================================
