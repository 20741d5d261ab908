------------------------------- MODULE I2cBus -------------------------------
(***************************************************************************)
(* The bit-banged I2C bus that both firmwares share, m4/src/               *)
(* mpu6050_rpmsg.c and m4/src/mpu6050.c: every call of lines_high and      *)
(* lines_low is a step, and remoteproc may stop the M4 between two of      *)
(* them and start it again.  The MPU6050 is external: a device of the I2C  *)
(* standard that reacts to the edges it sees and keeps its state while     *)
(* the M4 is down.                                                         *)
(*                                                                         *)
(* Bytes are the real ones, as sequences of bits, the highest first.  A    *)
(* line is high when nobody pulls it; only the M4 drives the clock.        *)
(***************************************************************************)
EXTENDS Naturals, Sequences

CONSTANTS
    Strap,        \* address the sensor's AD0 pin selects
    Length,       \* bytes of a burst that reads the measurements
    SensorBytes,  \* bytes the registers may hold
    MaxRestarts,  \* bound: times the M4 is stopped and started
    MaxTransfers  \* bound: transfers of one run of the firmware

ASSUME BusAssumption ==
    /\ Strap \in {104, 105} /\ Length \in Nat \ {0} /\ SensorBytes \subseteq 0..255
    /\ MaxRestarts \in Nat /\ MaxTransfers \in Nat

VARIABLES
    sda, scl,   \* what the M4 drives: 1 lets go, 0 pulls low
    calls,      \* the function under way, as the line calls it makes
    made,       \* how many of them have been made
    at,         \* where in the transfer that function was called
    job,        \* the transfer: its arguments
    got,        \* what read_line returned in the function under way
    data,       \* bytes of read_registers so far
    error,      \* the transfer fails
    dev,        \* the sensor
    done,       \* history: transfers since the M4 was started
    restarts    \* history: times the M4 was stopped

master  == <<calls, made, at, job, got, data, error, done>>
busVars == <<sda, scl, master, dev, restarts>>

Bits(v) == [i \in 1..8 |-> (v \div <<128, 64, 32, 16, 8, 4, 2, 1>>[i]) % 2]

-----------------------------------------------------------------------------
(* The MPU6050.  "heard" are the bytes written to it since it was last      *)
(* addressed for writing, "sent" those it sent since addressed for reading. *)

Line == IF sda = 1 /\ dev.out = 1 THEN 1 ELSE 0

Free(d)    == [d EXCEPT !.mode = "idle", !.n = 0, !.out = 1]
Started(d) == [d EXCEPT !.mode = "address", !.n = 0, !.byte = Bits(0), !.out = 1]

(* SDA goes from "old" to "new" while the clock stands: a start or a stop   *)
(* if it is high and the sensor is not holding the line down itself.        *)
DataEdge(d, old, new, clock) ==
    IF clock = 0 \/ d.out = 0 \/ old = new THEN d
    ELSE IF new = 1 THEN Free(d) ELSE Started(d)

(* The clock rises while the M4 has SDA at "level": a bit, or the ninth     *)
(* clock, at which whoever received the byte acknowledges it.               *)
ClockRises(d, level) ==
    IF d.mode = "idle" THEN d
    ELSE IF d.mode = "send" /\ d.n = 8 /\ level = 1 THEN Free(d)
    ELSE [d EXCEPT !.n = @ + 1,
                   !.byte = IF d.mode = "send" \/ d.n = 8 THEN @
                            ELSE [@ EXCEPT ![d.n + 1] = level]]

(* The sensor puts out the next byte.                                       *)
Sending(d) ==
    {[d EXCEPT !.mode = "send", !.n = 0, !.byte = Bits(v), !.out = Bits(v)[1],
               !.sent = Append(@, Bits(v))] : v \in SensorBytes}

Addressed(d) == \A i \in 1..7 : d.byte[i] = Bits(2 * Strap)[i]

(* The clock falls: the line may change.                                    *)
ClockFalls(d) ==
    CASE d.mode = "address" /\ d.n = 8 ->
             {IF Addressed(d) THEN [d EXCEPT !.out = 0] ELSE Free(d)}
      [] d.mode = "address" /\ d.n = 9 ->
             IF d.byte[8] = 1 THEN Sending([d EXCEPT !.sent = <<>>])
             ELSE {[d EXCEPT !.mode = "receive", !.n = 0, !.byte = Bits(0), !.out = 1,
                             !.heard = <<>>]}
      [] d.mode = "receive" /\ d.n = 8 ->
             {[d EXCEPT !.out = 0, !.heard = Append(@, d.byte)]}
      [] d.mode = "receive" /\ d.n = 9 ->
             {[d EXCEPT !.n = 0, !.byte = Bits(0), !.out = 1]}
      [] d.mode = "send" /\ d.n \in 1..7 -> {[d EXCEPT !.out = d.byte[d.n + 1]]}
      [] d.mode = "send" /\ d.n = 8 -> {[d EXCEPT !.out = 1]}
      [] d.mode = "send" /\ d.n = 9 -> Sending(d)
      [] OTHER -> {d}

-----------------------------------------------------------------------------
(* The functions of the firmware, as the line calls they make.              *)

Level(bit) == IF bit = 1 THEN "sda+" ELSE "sda-"

i2c_start == <<"both+", "sda-", "scl-">>

i2c_stop == <<"sda-", "scl+", "sda+">>

(* Fault: the line is set while the clock is high. *)
WriteLate(value) ==
    [k \in 1..28 |->
        IF k <= 24 THEN <<"scl+", Level(value[(k + 2) \div 3]), "scl-">>[((k + 2) % 3) + 1]
                   ELSE <<"sda+", "scl+", "read", "scl-">>[k - 24]]

(* Eight bits of three calls each, then the acknowledgement.                *)
i2c_write_byte(value) ==
    [k \in 1..28 |->
        IF k <= 24 THEN <<Level(value[(k + 2) \div 3]), "scl+", "scl-">>[((k + 2) % 3) + 1]
                   ELSE <<"sda+", "scl+", "read", "scl-">>[k - 24]]

i2c_read_byte(acknowledge) ==
    [k \in 1..29 |-> IF k = 1 THEN "sda+"
                     ELSE IF k <= 25 THEN <<"scl+", "read", "scl-">>[((k + 1) % 3) + 1]
                     ELSE <<IF acknowledge THEN "sda-" ELSE "sda+", "scl+", "scl-", "sda+">>[k - 25]]

(* gpio_i2c_init after its pins are outputs: nine clocks and a stop.        *)
gpio_i2c_init ==
    [k \in 1..22 |-> IF k = 1 THEN "both+"
                     ELSE IF k <= 19 THEN <<"scl-", "scl+">>[(k % 2) + 1] ELSE i2c_stop[k - 19]]

NoJob == [kind |-> "none", address |-> 0, reg |-> 0, arg |-> 0]

(* read_who_am_i, which is a burst of one byte; read_registers; and a write *)
(* of sensor_configure.                                                     *)
Jobs ==
    [kind : {"read"}, address : {104, 105}, reg : {117}, arg : {1}]
    \cup [kind : {"read"}, address : {104, 105}, reg : {59}, arg : {Length}]
    \cup [kind : {"write"}, address : {104, 105}, reg : {107}, arg : {0}]

(* The pins become outputs before anything was put out: both lines fall,    *)
(* which the sensor may take for a start, unless they were let go before.   *)
BusInit ==
    /\ sda \in {0, 1} /\ scl = sda
    /\ dev \in [mode : IF sda = 1 THEN {"idle"} ELSE {"idle", "address"}, n : {0},
                byte : {Bits(0)}, out : {1}, heard : {<<>>}, sent : {<<>>}]
    /\ calls = gpio_i2c_init /\ made = 0 /\ at = "init"
    /\ job = NoJob /\ got = <<>> /\ data = <<>> /\ error = FALSE
    /\ done = 0 /\ restarts = 0

-----------------------------------------------------------------------------
(* One call of lines_high, lines_low or read_line.                          *)

Called(call) ==
    /\ made < Len(calls)
    /\ calls[made + 1] = call
    /\ made' = made + 1
    /\ UNCHANGED <<calls, at, job, data, error, done, restarts>>

DriveData ==
    /\ \/ Called("sda+") /\ sda' = 1
       \/ Called("sda-") /\ sda' = 0
    /\ dev' = DataEdge(dev, sda, sda', scl)
    /\ UNCHANGED <<scl, got>>

ClockHigh ==
    /\ Called("scl+")
    /\ scl' = 1
    /\ dev' = IF scl = 1 THEN dev ELSE ClockRises(dev, sda)
    /\ UNCHANGED <<sda, got>>

ClockLow ==
    /\ Called("scl-")
    /\ scl' = 0
    /\ dev' \in IF scl = 1 THEN ClockFalls(dev) ELSE {dev}
    /\ UNCHANGED <<sda, got>>

(* Both lines are let go by one store, and which of them rises first is up  *)
(* to the wires.                                                            *)
BothHigh ==
    /\ Called("both+")
    /\ sda' = 1 /\ scl' = 1
    /\ LET clock(d, level) == IF scl = 1 THEN d ELSE ClockRises(d, level)
       IN  dev' \in {clock(DataEdge(dev, sda, 1, scl), 1),
                     DataEdge(clock(dev, sda), sda, 1, 1)}
    /\ UNCHANGED got

ReadLine ==
    /\ Called("read")
    /\ got' = Append(got, Line)
    /\ UNCHANGED <<sda, scl, dev>>

-----------------------------------------------------------------------------
(* The transfers: what follows when a function has returned.                *)

acknowledged == got = <<0>>

Returned(place) ==
    /\ made = Len(calls)
    /\ at = place
    /\ got' = <<>>
    /\ UNCHANGED <<sda, scl, dev, job, restarts>>

Then(place, next) == at' = place /\ calls' = next /\ made' = 0

(* Fault: no stop after an error. *)
FailUnstopped == Then("rest", <<>>) /\ error' = TRUE /\ done' = done + 1 /\ UNCHANGED data

Fail == Then("stop", i2c_stop) /\ error' = TRUE /\ UNCHANGED <<data, done>>

(* The next function if the byte was acknowledged, or else the end.         *)
Onwards(place, next) ==
    IF acknowledged THEN Then(place, next) /\ UNCHANGED <<data, error, done>> ELSE Fail

Initialised ==
    /\ Returned("init")
    /\ Then("rest", <<>>)
    /\ UNCHANGED <<data, error, done>>

(* main calls a transfer.                                                   *)
Transfer ==
    /\ at = "rest"
    /\ done < MaxTransfers
    /\ job' \in Jobs
    /\ Then("start", i2c_start)
    /\ data' = <<>> /\ error' = FALSE
    /\ UNCHANGED <<sda, scl, dev, got, done, restarts>>

Start ==
    /\ Returned("start")
    /\ Then("address", i2c_write_byte(Bits(2 * job.address)))
    /\ UNCHANGED <<data, error, done>>

AddressWritten ==
    /\ Returned("address")
    /\ Onwards("register", i2c_write_byte(Bits(job.reg)))

write_register ==
    /\ Returned("register")
    /\ job.kind = "write"
    /\ Onwards("value", i2c_write_byte(Bits(job.arg)))

ValueWritten ==
    /\ Returned("value")
    /\ Onwards("stop", i2c_stop)

read_registers ==
    /\ Returned("register")
    /\ job.kind = "read"
    /\ Onwards("restart", i2c_start)

Restarted ==
    /\ Returned("restart")
    /\ Then("read", i2c_write_byte(Bits(2 * job.address + 1)))
    /\ UNCHANGED <<data, error, done>>

ReadAddressed ==
    /\ Returned("read")
    /\ Onwards("data", i2c_read_byte(1 < job.arg))

ByteRead ==
    /\ Returned("data")
    /\ data' = Append(data, got)
    /\ IF Len(data') < job.arg THEN Then("data", i2c_read_byte(Len(data') + 1 < job.arg))
                               ELSE Then("stop", i2c_stop)
    /\ UNCHANGED <<error, done>>

Stop ==
    /\ Returned("stop")
    /\ Then("rest", <<>>)
    /\ done' = done + 1
    /\ UNCHANGED <<data, error>>

(* remoteproc stops the M4 wherever it is and starts it again; the pins and *)
(* the sensor stay as they are.                                             *)
Restart ==
    /\ restarts < MaxRestarts
    /\ restarts' = restarts + 1
    /\ Then("init", gpio_i2c_init)
    /\ job' = NoJob /\ got' = <<>> /\ data' = <<>> /\ error' = FALSE /\ done' = 0
    /\ UNCHANGED <<sda, scl, dev>>

BusNext ==
    \/ DriveData \/ ClockHigh \/ ClockLow \/ BothHigh \/ ReadLine
    \/ Initialised \/ Transfer \/ Start \/ AddressWritten \/ write_register \/ ValueWritten
    \/ read_registers \/ Restarted \/ ReadAddressed \/ ByteRead \/ Stop
    \/ Restart

BusSpec == BusInit /\ [][BusNext]_busVars

-----------------------------------------------------------------------------
(* Properties.                                                              *)

(* Every transfer leaves the bus free - both lines high and the sensor      *)
(* waiting for a start - with or without an error, and wherever an earlier  *)
(* run of the firmware was stopped: one transfer after the start, at the    *)
(* latest, puts the bus right.                                              *)
BusFree == at = "rest" /\ done > 0 => scl = 1 /\ Line = 1 /\ dev.mode = "idle"

(* From the second transfer on, the firmware and the sensor mean the same:  *)
(* a transfer fails exactly when it is for another address, a write puts    *)
(* its value into its register, and a read returns the bytes the sensor     *)
(* sent from the register asked for.                                        *)
TransfersTrue ==
    at = "rest" /\ done > 1 =>
        /\ error <=> job.address # Strap
        /\ ~error /\ job.kind = "write" => dev.heard = <<Bits(job.reg), Bits(job.arg)>>
        /\ ~error /\ job.kind = "read" =>
               dev.heard = <<Bits(job.reg)>> /\ data = dev.sent /\ Len(data) = job.arg

(* "remoteproc may stop the old firmware in the middle of a transfer: send  *)
(* nine clocks and produce a STOP" (m4/src/mpu6050.c:274, in Chinese; also  *)
(* README.md:1239): after gpio_i2c_init the sensor waits for a start.       *)
Recovered == at = "rest" /\ done = 0 => dev.mode = "idle"
=============================================================================
