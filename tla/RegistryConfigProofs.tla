------------------------ MODULE RegistryConfigProofs ------------------------
(***************************************************************************)
(* The registry never holds a readable mixture of two configurations,      *)
(* whatever the configurations, the kills and the failing values are.      *)
(*                                                                         *)
(* NeverMixed speaks of the registry alone and is not inductive.  What     *)
(* carries it is that the values there are, outside write_config, are all  *)
(* within the "count" there is (so that deleting any entry makes the rest  *)
(* unreadable), and within it the first values of the configuration being  *)
(* written, less those that failed.                                        *)
(***************************************************************************)
EXTENDS RegistryConfig, TLAPS

Shape ==
  /\ reg = [k \in DOMAIN reg |-> reg[k]] /\ DOMAIN reg \subseteq Nat
  /\ 0 \in DOMAIN reg => reg[0] \in Nat
  /\ config[0] \in Nat /\ DOMAIN config = Slots(config[0])
  /\ next \in Nat /\ missing \in BOOLEAN /\ kept \in BOOLEAN
  /\ pc \in {"down", "up", "delete", "write"}
  /\ pc = "delete" => ~missing

\* Outside the writing of values.
Settled ==
  /\ Readable(reg) => reg = saved
  /\ 0 \in DOMAIN reg => DOMAIN reg \subseteq Slots(reg[0])

Prefix ==
  /\ next =< N * config[0] + 1
  /\ DOMAIN reg \subseteq 0 .. next - 1
  /\ \A k \in DOMAIN reg : reg[k] = BeforeWrite(config)[k]
  /\ missing => \E k \in 0 .. next - 1 : k \notin DOMAIN reg
  /\ ~missing => DOMAIN reg = 0 .. next - 1
  /\ ~missing /\ next = N * config[0] + 1 => saved = BeforeWrite(config)

RInv ==
  /\ Shape
  /\ ~kept /\ pc # "write" => Settled
  /\ ~kept /\ pc = "write" => Prefix

\* What is read has as many values as its "count" says (AfterRead, BeforeWrite).
LEMMA Conversions ==
  ASSUME NEW c, c[0] \in Nat, DOMAIN c = Slots(c[0])
  PROVE  /\ DOMAIN BeforeWrite(c) = Slots(c[0]) /\ BeforeWrite(c)[0] = c[0]
         /\ BeforeWrite(c) = [k \in Slots(c[0]) |-> BeforeWrite(c)[k]]
         /\ DOMAIN AfterRead(c) = Slots(c[0]) /\ AfterRead(c)[0] = c[0]
<1>1. 0 \in Slots(c[0])
  BY RegistryAssumption DEF Slots
<1> QED
  BY <1>1 DEF BeforeWrite, AfterRead

\* A registry that is being written and can be read has all of the new values.
LEMMA WrittenIsSaved ==
  ASSUME Shape, Prefix
  PROVE  Settled
<1>1. DOMAIN BeforeWrite(config) = Slots(config[0]) /\ BeforeWrite(config)[0] = config[0]
      /\ BeforeWrite(config) = [k \in Slots(config[0]) |-> BeforeWrite(config)[k]]
  BY Conversions DEF Shape
<1>2. N * config[0] \in Nat
  BY RegistryAssumption DEF Shape
<1>3. 0 \in DOMAIN reg => reg[0] = config[0]
  BY <1>1 DEF Prefix
<1>4. 0 \in DOMAIN reg => DOMAIN reg \subseteq Slots(reg[0])
  BY <1>2, <1>3 DEF Prefix, Shape, Slots
<1>5. ASSUME Readable(reg) PROVE reg = saved
  <2>1. Slots(config[0]) \subseteq DOMAIN reg
    BY <1>3, <1>5 DEF Readable
  <2>2. N * config[0] \in DOMAIN reg
    BY <2>1, <1>2 DEF Slots
  <2>3. next = N * config[0] + 1
    BY <2>2, <1>2 DEF Prefix, Shape
  <2>4. ~missing
    BY <2>1, <2>3, <1>2 DEF Prefix, Shape, Slots
  <2>5. DOMAIN reg = Slots(config[0])
    BY <2>1, <1>3, <1>4, <1>5 DEF Readable
  <2>6. reg = [k \in Slots(config[0]) |-> BeforeWrite(config)[k]]
    BY <2>5 DEF Shape, Prefix
  <2>7. saved = BeforeWrite(config)
    BY <2>3, <2>4 DEF Prefix
  <2> QED
    BY <2>6, <2>7, <1>1
<1> QED
  BY <1>4, <1>5 DEF Settled

LEMMA RInvInit ==
  ASSUME RegistryInit PROVE RInv
<1>1. IsConfig(config) /\ (reg = Nothing \/ IsConfig(reg))
  BY RegistryAssumption DEF RegistryInit
<1>2. config[0] \in Nat /\ DOMAIN config = Slots(config[0])
  BY <1>1 DEF IsConfig
<1>3. /\ reg = [k \in DOMAIN reg |-> reg[k]] /\ DOMAIN reg \subseteq Nat
      /\ 0 \in DOMAIN reg => reg[0] \in Nat /\ DOMAIN reg \subseteq Slots(reg[0])
  <2>1. CASE reg = Nothing
    BY <2>1 DEF Nothing
  <2>2. CASE IsConfig(reg)
    <3>1. reg \in [Slots(reg[0]) -> Nat] /\ reg[0] \in Nat
      BY <2>2 DEF IsConfig
    <3>2. Slots(reg[0]) \subseteq Nat
      BY <3>1 DEF Slots
    <3> QED
      BY <3>1, <3>2
  <2>3. reg = Nothing \/ IsConfig(reg)
    BY <1>1
  <2> QED
    BY <2>1, <2>2, <2>3, Zenon
<1> QED
  BY <1>2, <1>3 DEF RInv, Shape, Settled, RegistryInit

\* A client is started: it has as many values as the registry's or the default's.
LEMMA RInvStart ==
  ASSUME RInv, Start PROVE RInv'
<1>1. /\ config'[0] \in Nat /\ DOMAIN config' = Slots(config'[0])
  <2>1. CASE Readable(reg) /\ config' = AfterRead(Read(reg))
    <3> DEFINE c == Read(reg)
    <3>1. 0 \in Slots(reg[0]) /\ reg[0] \in Nat
      BY <2>1, RegistryAssumption DEF RInv, Shape, Readable, Slots
    <3>2. c[0] = reg[0] /\ DOMAIN c = Slots(reg[0])
      BY <3>1 DEF Read
    <3>3. DOMAIN AfterRead(c) = Slots(c[0]) /\ AfterRead(c)[0] = c[0]
      BY <3>1, <3>2, Conversions
    <3> QED
      BY <2>1, <3>1, <3>2, <3>3
  <2>2. CASE config' = AfterRead(Default)
    <3>1. Default[0] \in Nat /\ DOMAIN Default = Slots(Default[0])
      BY RegistryAssumption DEF IsConfig
    <3> QED
      BY <2>2, <3>1, Conversions
  <2> QED
    BY <2>1, <2>2 DEF Start
<1> QED
  BY <1>1 DEF RInv, Shape, Settled, Start, Readable

LEMMA RInvSetConfig ==
  ASSUME RInv, NEW c \in Configs, SetConfig(c) PROVE RInv'
<1>1. c[0] \in Nat /\ DOMAIN c = Slots(c[0])
  BY RegistryAssumption DEF IsConfig
<1> QED
  BY <1>1 DEF RInv, Shape, Settled, SetConfig, Readable

\* A key of an entry is one the "count" there is needs.
LEMMA RInvDeleteKey ==
  ASSUME RInv, NEW i \in Nat, DeleteKey(i) PROVE RInv'
<1>1. /\ DOMAIN reg' = DOMAIN reg \ KeyOf(i)
      /\ \A k \in DOMAIN reg' : reg'[k] = reg[k]
      /\ reg' = [k \in DOMAIN reg' |-> reg'[k]]
  BY DEF DeleteKey
<1>2. Shape'
  BY <1>1 DEF RInv, Shape, DeleteKey
<1>3. ASSUME ~kept PROVE Settled'
  <2>1. 0 \in DOMAIN reg' => DOMAIN reg' \subseteq Slots(reg'[0])
    BY <1>1, <1>3 DEF RInv, Settled, DeleteKey
  <2>2. ~Readable(reg')
    <3> SUFFICES ASSUME 0 \in DOMAIN reg', Slots(reg'[0]) \subseteq DOMAIN reg' PROVE FALSE
      BY DEF Readable
    <3>1. i # 0
      BY <1>1 DEF KeyOf
    <3>2. PICK k \in KeyOf(i) : k \in DOMAIN reg
      BY DEF DeleteKey
    <3>3. k \in Slots(reg[0]) /\ reg[0] = reg'[0]
      BY <1>1, <1>3, <3>2 DEF RInv, Settled, DeleteKey
    <3>4. k \notin DOMAIN reg'
      BY <1>1, <3>2
    <3> QED
      BY <3>3, <3>4
  <2> QED
    BY <2>1, <2>2 DEF Settled
<1> QED
  BY <1>2, <1>3 DEF RInv, DeleteKey

LEMMA RInvEndDelete ==
  ASSUME RInv, EndDelete PROVE RInv'
<1>1. Shape'
  BY DEF RInv, Shape, EndDelete
<1>2. ASSUME ~kept' PROVE Prefix'
  <2>1. DOMAIN reg = {} /\ ~missing /\ config[0] \in Nat
    BY <1>2 DEF EndDelete, RInv, Shape
  <2>2. N * config[0] \in Nat
    BY <2>1, RegistryAssumption
  <2> QED
    BY <2>1, <2>2 DEF EndDelete, Prefix
<1> QED
  BY <1>1, <1>2 DEF RInv, EndDelete

LEMMA RInvSetValue ==
  ASSUME RInv, SetValue PROVE RInv'
<1>1. /\ DOMAIN BeforeWrite(config) = Slots(config[0])
      /\ BeforeWrite(config)[0] = config[0]
  BY Conversions DEF RInv, Shape
<1>2. N * config[0] \in Nat /\ next \in 0 .. N * config[0]
  BY RegistryAssumption DEF RInv, Shape, SetValue, Slots
<1>3. CASE UNCHANGED <<reg, saved>> /\ missing'
  <2>1. Shape'
    BY <1>3 DEF RInv, Shape, SetValue
  <2>2. ASSUME ~kept PROVE Prefix'
    <3>1. next \notin DOMAIN reg
      BY <1>2, <2>2 DEF RInv, Prefix, SetValue
    <3> QED
      BY <1>2, <1>3, <2>2, <3>1 DEF RInv, Shape, Prefix, SetValue
  <2> QED
    BY <2>1, <2>2 DEF RInv, SetValue
<1>4. CASE /\ reg' = [k \in DOMAIN reg \cup {next} |->
                        IF k = next THEN BeforeWrite(config)[k] ELSE reg[k]]
           /\ saved' = IF missing \/ next' \in DOMAIN config THEN saved ELSE BeforeWrite(config)
           /\ UNCHANGED missing
  <2>1. DOMAIN reg' = DOMAIN reg \cup {next} /\ reg' = [k \in DOMAIN reg' |-> reg'[k]]
    BY <1>4
  <2>2. Shape'
    <3>1. 0 \in DOMAIN reg' => reg'[0] \in Nat
      BY <1>1, <1>4 DEF RInv, Shape
    <3> QED
      BY <2>1, <3>1, <1>4 DEF RInv, Shape, SetValue
  <2>3. ASSUME ~kept PROVE Prefix'
    <3>1. Prefix /\ next' = next + 1 /\ config' = config
      BY <2>3 DEF RInv, SetValue
    <3>2. next' =< N * config'[0] + 1 /\ DOMAIN reg' \subseteq 0 .. next' - 1
      BY <1>2, <2>1, <3>1 DEF Prefix
    <3>3. \A k \in DOMAIN reg' : reg'[k] = BeforeWrite(config')[k]
      BY <1>4, <3>1 DEF Prefix
    <3>4. missing' => \E k \in 0 .. next' - 1 : k \notin DOMAIN reg'
      BY <1>2, <1>4, <2>1, <3>1 DEF Prefix
    <3>5. ~missing' => DOMAIN reg' = 0 .. next' - 1
      BY <1>2, <1>4, <2>1, <3>1 DEF Prefix
    <3>6. ~missing' /\ next' = N * config'[0] + 1 => saved' = BeforeWrite(config')
      <4>1. next' = N * config[0] + 1 => next' \notin DOMAIN config
        BY <1>2 DEF RInv, Shape, Slots
      <4> QED
        BY <1>4, <3>1, <4>1
    <3> QED
      BY <3>2, <3>3, <3>4, <3>5, <3>6 DEF Prefix
  <2> QED
    BY <2>2, <2>3 DEF RInv, SetValue
<1> QED
  BY <1>3, <1>4 DEF SetValue

\* The values are written, or the client is killed while they are.
LEMMA RInvEndWriteOrKill ==
  ASSUME RInv, EndWrite \/ Kill PROVE RInv'
<1>1. Shape'
  BY DEF RInv, Shape, EndWrite, Kill
<1>2. ASSUME ~kept PROVE Settled
  BY <1>2, WrittenIsSaved DEF RInv
<1>3. Settled => Settled'
  BY DEF Settled, Readable, EndWrite, Kill
<1> QED
  BY <1>1, <1>2, <1>3 DEF RInv, EndWrite, Kill

LEMMA RInvNext ==
  ASSUME RInv, [RegistryNext]_rvars PROVE RInv'
<1>1. CASE BeginWrite
  BY <1>1 DEF RInv, Shape, Settled, Readable, BeginWrite
<1>2. CASE UNCHANGED rvars
  BY <1>2 DEF RInv, Shape, Settled, Prefix, Readable, rvars
<1>3. ASSUME NEW i \in {0} \cup {(k - 1) \div N + 1 : k \in DOMAIN reg \ {0}}, DeleteKey(i)
      PROVE  RInv'
  <2>1. ASSUME NEW k \in DOMAIN reg \ {0} PROVE (k - 1) \div N + 1 \in Nat
    <3>1. k - 1 \in Nat /\ N \in Nat \ {0}
      BY RegistryAssumption DEF RInv, Shape
    <3>2. ASSUME NEW a \in Nat, NEW b \in Nat \ {0} PROVE a \div b \in Nat
      BY SMT
    <3> QED
      BY <3>1, <3>2
  <2>2. i \in Nat
    BY <1>3, <2>1
  <2> QED
    BY <1>3, <2>2, RInvDeleteKey
<1> QED
  BY <1>1, <1>2, <1>3, RInvStart, RInvSetConfig, RInvEndDelete, RInvSetValue,
     RInvEndWriteOrKill DEF RegistryNext

LEMMA RInvIsEnough ==
  ASSUME RInv PROVE NeverMixed
BY WrittenIsSaved DEF RInv, Settled, NeverMixed

\* Whatever is killed and whichever values are not written, a client that is
\* started reads the configuration last saved in full, or none
\* (write_config, read_config).
THEOREM RegistryNeverMixed == RegistrySpec => []NeverMixed
<1>1. RegistryInit => RInv
  BY RInvInit
<1>2. RInv /\ [RegistryNext]_rvars => RInv'
  BY RInvNext
<1>3. RInv => NeverMixed
  BY RInvIsEnough
<1> QED
  BY <1>1, <1>2, <1>3, PTL DEF RegistrySpec
-----------------------------------------------------------------------------
(***************************************************************************)
(* What a start finds and what it leaves behind.  This argument does not   *)
(* need that deleting has worked: a value is that of the configuration     *)
(* being written once it was written, whatever was there before.           *)
(***************************************************************************)

Numbers ==
  /\ \A k \in DOMAIN reg : reg[k] \in Nat
  /\ config[0] \in Nat /\ config \in [Slots(config[0]) -> Nat]
  /\ fails \in Nat /\ writes \in Nat /\ next \in Nat
  /\ pc \in {"down", "up", "delete", "write"}
  /\ pc \in {"delete", "write"} => writes > 0

Written == \A k \in DOMAIN config : k < next => k \in DOMAIN reg /\ reg[k] = BeforeWrite(config)[k]

KInv ==
  /\ Numbers
  /\ pc \in {"down", "up"} /\ ~cut /\ saved # Nothing => Readable(reg)
  /\ pc = "write" /\ ~missing => Written
  /\ pc = "delete" => ~missing
  /\ pc = "write" /\ fails = 0 => ~missing
  /\ was # Nothing => was[0] \in Nat /\ was \in [Slots(was[0]) -> Nat] /\ config = AfterRead(was)
  /\ pc = "up" /\ writes = 0 /\ was # Nothing /\ fails = 0 =>
       \A k \in DOMAIN config : k \in DOMAIN reg /\ reg[k] = BeforeWrite(config)[k]

LEMMA ModNat == ASSUME NEW a \in Nat, NEW b \in Nat \ {0} PROVE a % b \in 0 .. b - 1
BY SMT

LEMMA DivNat == ASSUME NEW a \in Nat, NEW b \in Nat \ {0} PROVE a \div b \in Nat
BY SMT

\* What fits survives the conversions (convert_after_read, convert_before_write).
LEMMA FitsSurvives ==
  ASSUME NEW v \in Nat, NEW u \in Nat \ {0}, NEW s \in Nat \ {0}, v * u < s
  PROVE  ((v * u) % s) \div u = v
<1>1. v * u \in Nat
  BY SMT
<1>2. (v * u) % s = v * u
  BY <1>1, SMT
<1>3. (v * u) \div u = v
  BY SMT
<1> QED
  BY <1>2, <1>3

LEMMA FieldRange ==
  ASSUME NEW k \in Nat \ {0} PROVE Field(k) \in 1 .. N /\ Unit[Field(k)] \in Nat \ {0}
                                    /\ Size[Field(k)] \in Nat \ {0}
<1>1. (k - 1) % N \in 0 .. N - 1
  BY ModNat, RegistryAssumption, k - 1 \in Nat
<1>2. Field(k) \in 1 .. N
  BY <1>1, RegistryAssumption DEF Field
<1> QED
  BY <1>2, RegistryAssumption

LEMMA SlotsNat == ASSUME NEW n \in Nat PROVE Slots(n) \subseteq Nat /\ 0 \in Slots(n)
BY RegistryAssumption DEF Slots

LEMMA ConvertedNumbers ==
  ASSUME NEW c, c[0] \in Nat, c \in [Slots(c[0]) -> Nat]
  PROVE  /\ AfterRead(c)[0] \in Nat /\ AfterRead(c) \in [Slots(AfterRead(c)[0]) -> Nat]
         /\ \A k \in Slots(c[0]) : BeforeWrite(c)[k] \in Nat
<1>1. Slots(c[0]) \subseteq Nat /\ 0 \in Slots(c[0])
  BY SlotsNat
<1>2. ASSUME NEW k \in Slots(c[0]), k # 0
      PROVE  /\ (c[k] * Unit[Field(k)]) % Size[Field(k)] \in Nat
             /\ c[k] \div Unit[Field(k)] \in Nat
  <2>1. c[k] \in Nat /\ Unit[Field(k)] \in Nat \ {0} /\ Size[Field(k)] \in Nat \ {0}
    BY <1>1, <1>2, FieldRange
  <2>2. c[k] * Unit[Field(k)] \in Nat
    <3>1. ASSUME NEW a \in Nat, NEW b \in Nat PROVE a * b \in Nat
      BY SMT
    <3> QED
      BY <2>1, <3>1
  <2>3. (c[k] * Unit[Field(k)]) % Size[Field(k)] \in 0 .. Size[Field(k)] - 1
    BY <2>1, <2>2, ModNat
  <2>4. c[k] \div Unit[Field(k)] \in Nat
    BY <2>1, DivNat
  <2> QED
    BY <2>1, <2>3, <2>4
<1>3. AfterRead(c)[0] = c[0]
  BY <1>1 DEF AfterRead
<1> QED
  BY <1>1, <1>2, <1>3 DEF AfterRead, BeforeWrite

LEMMA KInvInit ==
  ASSUME RegistryInit PROVE KInv
<1>1. IsConfig(config) /\ (reg = Nothing \/ IsConfig(reg))
  BY RegistryAssumption DEF RegistryInit
<1>2. \A k \in DOMAIN reg : reg[k] \in Nat
  BY <1>1 DEF IsConfig, Nothing
<1>3. reg # Nothing => Readable(reg)
  <2>1. SUFFICES ASSUME IsConfig(reg) PROVE Readable(reg)
    BY <1>1
  <2> QED
    BY <2>1, SlotsNat DEF IsConfig, Readable
<1> QED
  BY <1>1, <1>2, <1>3 DEF KInv, Numbers, IsConfig, RegistryInit

LEMMA KInvStart ==
  ASSUME KInv, Start PROVE KInv'
<1>1. Default[0] \in Nat /\ Default \in [Slots(Default[0]) -> Nat]
  BY RegistryAssumption DEF IsConfig
<1>2. CASE Readable(reg) /\ config' = AfterRead(Read(reg)) /\ writes' = 1 /\ was' = Read(reg)
            /\ UNCHANGED fails
  <2> DEFINE c == Read(reg)
  <2>1. 0 \in Slots(reg[0]) /\ reg[0] \in Nat
    BY <1>2, SlotsNat DEF KInv, Numbers, Readable
  <2>2. c[0] \in Nat /\ c \in [Slots(c[0]) -> Nat]
    BY <1>2, <2>1 DEF Read, KInv, Numbers, Readable
  <2>3. config'[0] \in Nat /\ config' \in [Slots(config'[0]) -> Nat]
    BY <1>2, <2>2, ConvertedNumbers
  <2>4. config' = AfterRead(was') /\ was' = c /\ writes' = 1
    BY <1>2 DEF Start
  <2>5. Numbers'
    BY <2>3, <2>4 DEF KInv, Numbers, Start
  <2>6. /\ pc' = "up" /\ writes' = 1
        /\ was'[0] \in Nat /\ was' \in [Slots(was'[0]) -> Nat] /\ config' = AfterRead(was')
    BY <2>2, <2>4 DEF Start
  <2>7. Readable(reg)'
    BY <1>2 DEF Start, Readable
  <2> HIDE DEF c
  <2> QED
    BY <2>5, <2>6, <2>7 DEF KInv
<1>3. CASE /\ config' = AfterRead(Default) /\ writes' = 2 /\ was' = Nothing
           /\ IF Readable(reg) THEN fails < MaxFails /\ fails' = fails + 1 ELSE UNCHANGED fails
  <2>1. config'[0] \in Nat /\ config' \in [Slots(config'[0]) -> Nat]
    BY <1>1, <1>3, ConvertedNumbers
  <2> QED
    BY <1>3, <2>1 DEF KInv, Numbers, Start, Readable
<1> QED
  BY <1>2, <1>3 DEF Start

LEMMA KInvSetConfig ==
  ASSUME KInv, NEW c \in Configs, SetConfig(c) PROVE KInv'
<1>1. c[0] \in Nat /\ c \in [Slots(c[0]) -> Nat]
  BY RegistryAssumption DEF IsConfig
<1> QED
  BY <1>1 DEF KInv, Numbers, SetConfig, Readable

LEMMA KInvDelete ==
  ASSUME KInv, EndDelete \/ \E i : DeleteKey(i) PROVE KInv'
<1>1. CASE \E i : DeleteKey(i)
  <2>1. PICK i : DeleteKey(i)
    BY <1>1
  <2>2. \A k \in DOMAIN reg' : reg'[k] = reg[k] /\ k \in DOMAIN reg
    BY <2>1 DEF DeleteKey
  <2> QED
    BY <2>1, <2>2 DEF KInv, Numbers, DeleteKey
<1>2. CASE EndDelete
  <2>1. Written'
    BY <1>2, SlotsNat DEF KInv, Numbers, EndDelete, Written
  <2>2. Numbers'
    BY <1>2 DEF KInv, Numbers, EndDelete
  <2> QED
    BY <1>2, <2>1, <2>2 DEF KInv, EndDelete
<1> QED
  BY <1>1, <1>2

LEMMA KInvSetValue ==
  ASSUME KInv, SetValue PROVE KInv'
<1>1. BeforeWrite(config)[next] \in Nat
  BY ConvertedNumbers DEF KInv, Numbers, SetValue
<1>2. CASE reg' = [k \in DOMAIN reg \cup {next} |->
                    IF k = next THEN BeforeWrite(config)[k] ELSE reg[k]]
           /\ UNCHANGED <<fails, missing>>
  <2>1. Numbers'
    BY <1>1, <1>2 DEF KInv, Numbers, SetValue
  <2>2. ~missing => Written'
    BY <1>2, SlotsNat DEF KInv, Numbers, Written, SetValue
  <2> QED
    BY <1>2, <2>1, <2>2 DEF KInv, SetValue
<1>3. CASE fails' = fails + 1 /\ missing' = TRUE /\ UNCHANGED <<reg, saved>>
  BY <1>3 DEF KInv, Numbers, SetValue
<1> QED
  BY <1>2, <1>3 DEF SetValue

LEMMA KInvEndWrite ==
  ASSUME KInv, EndWrite PROVE KInv'
<1>1. Numbers'
  BY DEF KInv, Numbers, EndWrite
<1>2. ASSUME ~missing PROVE /\ Readable(reg)
                            /\ \A k \in DOMAIN config : k \in DOMAIN reg
                                                        /\ reg[k] = BeforeWrite(config)[k]
  <2>1. Slots(config[0]) = 0 .. N * config[0] /\ N * config[0] \in Nat
    BY RegistryAssumption DEF KInv, Numbers, Slots
  <2>2. \A k \in DOMAIN config : k \in DOMAIN reg /\ reg[k] = BeforeWrite(config)[k]
    BY <1>2, <2>1 DEF KInv, Numbers, EndWrite, Written
  <2>3. 0 \in DOMAIN config /\ BeforeWrite(config)[0] = config[0]
    BY <2>1 DEF KInv, Numbers, BeforeWrite
  <2> QED
    BY <2>2, <2>3 DEF Readable, KInv, Numbers
<1> QED
  BY <1>1, <1>2 DEF KInv, EndWrite, Readable

LEMMA KInvNext ==
  ASSUME KInv, [RegistryNext]_rvars PROVE KInv'
<1>1. CASE BeginWrite
  BY <1>1 DEF KInv, Numbers, Readable, BeginWrite
<1>2. CASE Kill
  BY <1>2 DEF KInv, Numbers, Readable, Kill
<1>3. CASE UNCHANGED rvars
  BY <1>3 DEF KInv, Numbers, Written, Readable, rvars
<1> QED
  BY <1>1, <1>2, <1>3, KInvStart, KInvSetConfig, KInvDelete, KInvSetValue, KInvEndWrite
  DEF RegistryNext

LEMMA KInvIsEnough ==
  ASSUME KInv PROVE (pc = "down" /\ ~cut /\ saved # Nothing => Readable(reg)) /\ StartKeepsThresholds
<1>1. pc = "down" /\ ~cut /\ saved # Nothing => Readable(reg)
  BY DEF KInv
<1>2. ASSUME pc = "up", writes = 0, was # Nothing, fails = 0,
             NEW k \in DOMAIN was \ {0}, was[k] * Unit[Field(k)] < Size[Field(k)]
      PROVE  k \in DOMAIN reg /\ reg[k] = was[k]
  <2>1. /\ was[0] \in Nat /\ was \in [Slots(was[0]) -> Nat] /\ config = AfterRead(was)
        /\ \A j \in DOMAIN config : j \in DOMAIN reg /\ reg[j] = BeforeWrite(config)[j]
    BY <1>2 DEF KInv
  <2>2. k \in Nat \ {0} /\ k \in DOMAIN config
    BY <1>2, <2>1, SlotsNat DEF AfterRead
  <2>3. was[k] \in Nat /\ Unit[Field(k)] \in Nat \ {0} /\ Size[Field(k)] \in Nat \ {0}
    BY <1>2, <2>1, <2>2, FieldRange
  <2>4. BeforeWrite(config)[k] = ((was[k] * Unit[Field(k)]) % Size[Field(k)]) \div Unit[Field(k)]
    BY <1>2, <2>1, <2>2 DEF BeforeWrite, AfterRead
  <2>5. BeforeWrite(config)[k] = was[k]
    BY <1>2, <2>3, <2>4, FitsSurvives
  <2> QED
    BY <2>1, <2>2, <2>5
<1> QED
  BY <1>1, <1>2 DEF StartKeepsThresholds

\* A start that is made with the default and not with what was saved follows
\* a write_config that was killed or has failed in part, or is one at which a
\* call that reads fails (write_config, read_config).
THEOREM RegistryDefaultOnlyIfCut == RegistrySpec => DefaultOnlyIfCut
<1>1. RegistryInit => KInv
  BY KInvInit
<1>2. KInv /\ [RegistryNext]_rvars => KInv'
  BY KInvNext
<1>3. KInv /\ [RegistryNext]_rvars =>
        [pc = "down" /\ pc' = "up" /\ was' = Nothing =>
           saved = Nothing \/ cut \/ fails' # fails]_rvars
  <2> SUFFICES ASSUME KInv, RegistryNext, pc = "down", pc' = "up", was' = Nothing,
                      saved # Nothing, ~cut, fails' = fails
               PROVE  FALSE
    OBVIOUS
  <2>1. Start
    BY DEF RegistryNext, Start, BeginWrite, EndDelete, SetValue, EndWrite, Kill, SetConfig,
           DeleteKey
  <2>2. Readable(reg) /\ fails \in Nat
    BY KInvIsEnough DEF KInv, Numbers
  <2>3. was' = Read(reg)
    BY <2>1, <2>2 DEF Start
  <2>4. 0 \in DOMAIN Read(reg)
    BY <2>2, SlotsNat DEF Read, Readable, KInv, Numbers
  <2>5. 0 \notin DOMAIN Nothing
    BY DEF Nothing
  <2> QED
    BY <2>3, <2>4, <2>5
<1> QED
  BY <1>1, <1>2, <1>3, PTL DEF RegistrySpec, DefaultOnlyIfCut

\* Starting a client changes no threshold that fits its type, for every unit
\* and every size of type (convert_after_read, convert_before_write).
THEOREM RegistryStartKeepsThresholds == RegistrySpec => []StartKeepsThresholds
<1>1. RegistryInit => KInv
  BY KInvInit
<1>2. KInv /\ [RegistryNext]_rvars => KInv'
  BY KInvNext
<1>3. KInv => StartKeepsThresholds
  BY KInvIsEnough
<1> QED
  BY <1>1, <1>2, <1>3, PTL DEF RegistrySpec
-----------------------------------------------------------------------------
(***************************************************************************)
(* The types: what is in the registry was in memory or there at first, and *)
(* dividing by a unit takes no value out of its type.                      *)
(***************************************************************************)
RegTyped == \A k \in DOMAIN reg \ {0} : reg[k] \in 0 .. Size[Field(k)] - 1

TypeInv ==
  /\ RegistryTypeOK /\ RegTyped
  /\ pc \in {"delete", "write"} => writes > 0

LEMMA DivLess ==
  ASSUME NEW a \in Nat, NEW u \in Nat \ {0}, NEW s \in Nat \ {0}, a < s
  PROVE  a \div u \in 0 .. s - 1
<1>1. a \div u \in Nat
  BY DivNat
<1>2. a \div u <= a
  BY Z3
<1> QED BY <1>1, <1>2

\* What is read, converted, is a configuration (convert_after_read).
LEMMA AfterReadIsConfig ==
  ASSUME NEW c, c[0] \in Nat, c \in [Slots(c[0]) -> Nat]
  PROVE  IsConfig(AfterRead(c))
<1>1. /\ AfterRead(c)[0] \in Nat /\ AfterRead(c) \in [Slots(AfterRead(c)[0]) -> Nat]
  BY ConvertedNumbers
<1>2. ASSUME NEW k \in DOMAIN AfterRead(c) \ {0}
      PROVE  AfterRead(c)[k] \in 0 .. Size[Field(k)] - 1
  <2>1. k \in DOMAIN c /\ k \in Nat \ {0} /\ c[k] \in Nat
    BY <1>2, SlotsNat DEF AfterRead
  <2>2. Unit[Field(k)] \in Nat \ {0} /\ Size[Field(k)] \in Nat \ {0}
    BY <2>1, FieldRange
  <2>3. c[k] * Unit[Field(k)] \in Nat
    <3>1. ASSUME NEW a \in Nat, NEW b \in Nat PROVE a * b \in Nat
      BY SMT
    <3> QED BY <2>1, <2>2, <3>1
  <2>4. AfterRead(c)[k] = (c[k] * Unit[Field(k)]) % Size[Field(k)]
    BY <2>1 DEF AfterRead
  <2> QED BY <2>2, <2>3, <2>4, ModNat
<1> QED BY <1>1, <1>2 DEF IsConfig

\* What is written is one as well (convert_before_write).
LEMMA BeforeWriteIsConfig ==
  ASSUME NEW c, IsConfig(c)
  PROVE  IsConfig(BeforeWrite(c))
<1>1. c[0] \in Nat /\ c \in [Slots(c[0]) -> Nat] /\ 0 \in Slots(c[0]) /\ Slots(c[0]) \subseteq Nat
  BY SlotsNat DEF IsConfig
<1>2. /\ DOMAIN BeforeWrite(c) = Slots(c[0]) /\ BeforeWrite(c)[0] = c[0]
      /\ BeforeWrite(c) = [k \in Slots(c[0]) |-> BeforeWrite(c)[k]]
  BY <1>1, Conversions
<1>3. ASSUME NEW k \in Slots(c[0]) \ {0}
      PROVE  BeforeWrite(c)[k] \in 0 .. Size[Field(k)] - 1
  <2>1. k \in Nat \ {0} /\ c[k] \in 0 .. Size[Field(k)] - 1
    BY <1>1 DEF IsConfig
  <2>2. Unit[Field(k)] \in Nat \ {0} /\ Size[Field(k)] \in Nat \ {0}
    BY <2>1, FieldRange
  <2>3. c[k] \in Nat /\ c[k] < Size[Field(k)]
    BY <2>1, <2>2
  <2>4. BeforeWrite(c)[k] = c[k] \div Unit[Field(k)]
    BY <1>1 DEF BeforeWrite
  <2> QED BY <2>2, <2>3, <2>4, DivLess
<1>4. \A k \in Slots(c[0]) : BeforeWrite(c)[k] \in Nat
  BY <1>1, ConvertedNumbers
<1> HIDE DEF BeforeWrite
<1>5. BeforeWrite(c) \in [Slots(c[0]) -> Nat]
  BY <1>2, <1>4
<1> QED BY <1>1, <1>2, <1>3, <1>5 DEF IsConfig

\* What read_config reads is a configuration.
LEMMA ReadIsConfig ==
  ASSUME TypeInv, Readable(reg)
  PROVE  IsConfig(Read(reg))
<1>1. reg[0] \in Nat /\ Slots(reg[0]) \subseteq DOMAIN reg
  BY DEF Readable, TypeInv, RegistryTypeOK
<1>2. Slots(reg[0]) \subseteq Nat /\ 0 \in Slots(reg[0])
  BY <1>1, SlotsNat
<1>3. Read(reg)[0] = reg[0] /\ DOMAIN Read(reg) = Slots(reg[0])
      /\ \A k \in Slots(reg[0]) : Read(reg)[k] = reg[k]
  BY <1>2 DEF Read
<1>4. Read(reg) \in [Slots(reg[0]) -> Nat]
  BY <1>1, <1>2 DEF Read, TypeInv, RegistryTypeOK
<1> QED BY <1>1, <1>3, <1>4 DEF IsConfig, TypeInv, RegTyped

LEMMA TypeInvInit == ASSUME RegistryInit PROVE TypeInv
<1>1. IsConfig(Default) /\ (reg = Nothing \/ IsConfig(reg))
  BY RegistryAssumption DEF RegistryInit
<1>2. /\ DOMAIN reg \subseteq Nat /\ \A k \in DOMAIN reg : reg[k] \in Nat
      /\ RegTyped
  <2>1. CASE reg = Nothing
    BY <2>1 DEF Nothing, RegTyped
  <2>2. CASE IsConfig(reg)
    BY <2>2, SlotsNat DEF IsConfig, RegTyped
  <2> QED BY <1>1, <2>1, <2>2
<1>3. 0 \in 0 .. MaxSets /\ 0 \in 0 .. MaxKills /\ 0 \in 0 .. MaxFails
  BY RegistryAssumption
<1>4. IsConfig(config) /\ (\A c \in {was, saved} : c = Nothing \/ IsConfig(c))
  BY <1>1 DEF RegistryInit
<1>5. RegistryTypeOK
  <2>1. /\ pc = "down" /\ next = 0 /\ writes = 0 /\ sets = 0 /\ kills = 0 /\ fails = 0
        /\ missing = FALSE /\ kept = FALSE /\ cut = FALSE
    BY DEF RegistryInit
  <2>2. /\ pc \in {"down", "up", "delete", "write"} /\ next \in Nat /\ writes \in 0 .. 2
        /\ sets \in 0 .. MaxSets /\ kills \in 0 .. MaxKills /\ fails \in 0 .. MaxFails
    BY <1>3, <2>1
  <2>3. missing \in BOOLEAN /\ kept \in BOOLEAN /\ cut \in BOOLEAN
    BY <2>1, Zenon
  <2> QED BY <1>2, <1>4, <2>2, <2>3, Zenon DEF RegistryTypeOK
<1>6. pc \notin {"delete", "write"}
  BY DEF RegistryInit
<1> QED BY <1>2, <1>5, <1>6 DEF TypeInv

LEMMA TypeInvStart == ASSUME TypeInv, Start PROVE TypeInv'
<1> USE DEF TypeInv, RegistryTypeOK, RegTyped
<1>1. IsConfig(config') /\ (was' = Nothing \/ IsConfig(was')) /\ writes' \in 1 .. 2
  <2>1. CASE Readable(reg) /\ config' = AfterRead(Read(reg)) /\ writes' = 1 /\ was' = Read(reg)
    <3>1. IsConfig(Read(reg))
      BY <2>1, ReadIsConfig
    <3>2. IsConfig(AfterRead(Read(reg)))
      <4>1. Read(reg)[0] \in Nat /\ Read(reg) \in [Slots(Read(reg)[0]) -> Nat]
        BY <3>1 DEF IsConfig
      <4> QED BY <4>1, AfterReadIsConfig
    <3> QED BY <2>1, <3>1, <3>2
  <2>2. CASE config' = AfterRead(Default) /\ writes' = 2 /\ was' = Nothing
    <3>1. Default[0] \in Nat /\ Default \in [Slots(Default[0]) -> Nat]
      BY RegistryAssumption DEF IsConfig
    <3>2. IsConfig(AfterRead(Default))
      BY <3>1, AfterReadIsConfig
    <3> QED BY <2>2, <3>2
  <2> QED BY <2>1, <2>2 DEF Start
<1>2. /\ UNCHANGED <<reg, next, sets, kills, saved, missing, kept, cut>>
      /\ pc' = "up"
  BY DEF Start
<1>3. fails' \in 0 .. MaxFails
  BY RegistryAssumption DEF Start
<1> QED BY <1>1, <1>2, <1>3

LEMMA TypeInvSetValue == ASSUME TypeInv, SetValue PROVE TypeInv'
<1> USE DEF TypeInv, RegistryTypeOK, RegTyped
<1> DEFINE written == BeforeWrite(config)
<1>1. IsConfig(written)
  BY BeforeWriteIsConfig
<1>2. /\ next \in DOMAIN written /\ next \in Nat /\ pc = "write" /\ next' = next + 1
      /\ UNCHANGED <<pc, config, writes, sets, kills, was, kept, cut>>
  BY DEF SetValue, BeforeWrite
<1>3. written[next] \in Nat /\ (next # 0 => written[next] \in 0 .. Size[Field(next)] - 1)
  <2>1. written \in [Slots(written[0]) -> Nat]
    BY <1>1 DEF IsConfig
  <2>2. \A k \in DOMAIN written \ {0} : written[k] \in 0 .. Size[Field(k)] - 1
    BY <1>1 DEF IsConfig
  <2> HIDE DEF written
  <2> QED BY <1>2, <2>1, <2>2
<1>4. CASE /\ reg' = [k \in DOMAIN reg \cup {next} |->
                        IF k = next THEN BeforeWrite(config)[k] ELSE reg[k]]
           /\ saved' = IF missing \/ next' \in DOMAIN config THEN saved ELSE BeforeWrite(config)
           /\ UNCHANGED <<fails, missing>>
  <2>1. DOMAIN reg' = DOMAIN reg \cup {next}
        /\ \A k \in DOMAIN reg' : reg'[k] = IF k = next THEN written[next] ELSE reg[k]
    BY <1>4
  <2>2. saved' = Nothing \/ IsConfig(saved')
    BY <1>1, <1>4
  <2> HIDE DEF written
  <2>3. DOMAIN reg' \subseteq Nat /\ (\A k \in DOMAIN reg' : reg'[k] \in Nat) /\ RegTyped'
    BY <1>2, <1>3, <2>1
  <2>4. next' \in Nat /\ writes' \in 0 .. 2 /\ missing' \in BOOLEAN /\ fails' \in 0 .. MaxFails
    BY <1>2, <1>4
  <2>5. RegistryTypeOK'
    BY <1>2, <2>2, <2>3, <2>4
  <2> QED BY <1>2, <2>3, <2>5
<1>5. CASE fails < MaxFails /\ fails' = fails + 1 /\ missing' = TRUE /\ UNCHANGED <<reg, saved>>
  BY <1>2, <1>5, RegistryAssumption
<1> QED BY <1>4, <1>5 DEF SetValue

LEMMA TypeInvNext == ASSUME TypeInv, [RegistryNext]_rvars PROVE TypeInv'
<1> USE RegistryAssumption DEF TypeInv, RegistryTypeOK, RegTyped
<1>1. CASE BeginWrite
  BY <1>1 DEF BeginWrite
<1>2. CASE EndDelete
  <2>1. fails' \in 0 .. MaxFails /\ kept' \in BOOLEAN
    <3>1. CASE DOMAIN reg = {}
      BY <1>2, <3>1 DEF EndDelete
    <3>2. CASE DOMAIN reg # {}
      <4>1. fails < MaxFails /\ fails' = fails + 1 /\ kept' = TRUE
        BY <1>2, <3>2 DEF EndDelete
      <4> QED BY <4>1
    <3> QED BY <3>1, <3>2
  <2>2. pc' = "write" /\ next' = 0 /\ pc = "delete"
        /\ UNCHANGED <<reg, config, writes, sets, kills, was, saved, missing, cut>>
    BY <1>2 DEF EndDelete
  <2> QED BY <2>1, <2>2
<1>3. CASE EndWrite
  BY <1>3 DEF EndWrite
<1>4. CASE Kill
  <2>1. /\ kills' \in 0 .. MaxKills /\ cut' \in BOOLEAN
        /\ pc' = "down" /\ writes' = 0 /\ was' = Nothing
        /\ UNCHANGED <<reg, next, config, sets, fails, saved, missing, kept>>
    BY <1>4 DEF Kill
  <2> QED BY <2>1
<1>5. ASSUME NEW c \in Configs, SetConfig(c) PROVE TypeInv'
  <2>1. IsConfig(c)
    OBVIOUS
  <2> QED BY <1>5, <2>1 DEF SetConfig
<1>6. ASSUME NEW i, DeleteKey(i) PROVE TypeInv'
  <2>1. DOMAIN reg' \subseteq DOMAIN reg /\ \A k \in DOMAIN reg' : reg'[k] = reg[k]
    BY <1>6 DEF DeleteKey
  <2> QED BY <1>6, <2>1 DEF DeleteKey
<1>7. CASE UNCHANGED rvars
  BY <1>7 DEF rvars
<1> QED
  BY <1>1, <1>2, <1>3, <1>4, <1>5, <1>6, <1>7, TypeInvStart, TypeInvSetValue
  DEF RegistryNext

\* The registry, the configuration in memory and what was read or saved stay
\* configurations with each threshold in its type, for every unit and size of
\* type, whichever calls fail or are killed (write_config, read_config).
THEOREM RegistryTypeCorrect == RegistrySpec => []RegistryTypeOK
<1>1. RegistryInit => TypeInv
  BY TypeInvInit
<1>2. TypeInv /\ [RegistryNext]_rvars => TypeInv'
  BY TypeInvNext
<1>3. TypeInv => RegistryTypeOK
  BY DEF TypeInv
<1> QED BY <1>1, <1>2, <1>3, PTL DEF RegistrySpec
=============================================================================
