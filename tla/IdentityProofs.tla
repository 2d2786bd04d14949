----------------------------- MODULE IdentityProofs -----------------------------
(***************************************************************************)
(* One process at a time on a data directory: the node keeps its identity, *)
(* whatever starts fail or are killed, for any seeds and any number of     *)
(* starts.  (Two at a time: not so, each may generate a key of its own.)   *)
(***************************************************************************)
EXTENDS Identity, TLAPS

Alone == \A i, j \in Instances : i = j

(* What the contents of a key file, and identities, are told apart by. *)
LEMMA KeyIsKey == \A n \in Nat : Key(n) \in Keys
  BY DEF Key, Keys

LEMMA ContentsDiffer ==
  /\ Absent \notin Keys /\ Empty \notin Keys
  /\ None \notin Keys /\ None \notin Derived
  BY IdentityAssumption DEF Absent, Empty, None, Keys, Derived

(* What the configuration makes of the seed. *)
LEMMA SecretsDirIsDir == secretsDir \in Dirs
  BY DEF secretsDir, Dirs

LEMMA SeedFound ==
  ASSUME conf \in Configurations
  PROVE  /\ FoundSeed \in Given
         /\ UseSeed(FoundSeed) /\ FoundSeed \in Seeds =>
              <<FoundSeed, conf.index>> \in Derived
<1>1. /\ conf.file \in [Dirs -> Given \cup {"absent"}]
      /\ conf.flag \in Given
      /\ conf.index \in {-1, 0}
  BY DEF Configurations
<1>2. FoundSeed \in Given
  BY <1>1, SecretsDirIsDir DEF FoundSeed
<1>3. ASSUME UseSeed(FoundSeed), FoundSeed \in Seeds
      PROVE  <<FoundSeed, conf.index>> \in Derived
  <2>1. conf.index = -1 \/ conf.index = 0
    BY <1>1
  <2>2. conf.index # -1
    BY <1>3 DEF UseSeed
  <2>3. conf.index \in Nat
    BY <2>1, <2>2
  <2> QED
    BY <2>3, <1>3 DEF Derived
<1> QED
  BY <1>2, <1>3

(* A step that keeps the configuration keeps what is expected, as long as *)
(* it keeps the key file too. *)
LEMMA SameExpectation ==
  ASSUME conf' = conf
  PROVE  /\ secretsDir' = secretsDir
         /\ FoundSeed' = FoundSeed
         /\ UseSeed(FoundSeed)' = UseSeed(FoundSeed)
         /\ keyFile' = keyFile => Expected' = Expected
         /\ UseSeed(FoundSeed) => Expected' = Expected
  BY DEF secretsDir, FoundSeed, Expected, UseSeed

LEMMA InitInd == Init => IndInv
<1> SUFFICES ASSUME Init PROVE IndInv
  OBVIOUS
<1>1. Key(0) \in Contents /\ Key(1) \in Contents /\ Absent \in Contents
  BY KeyIsKey DEF Contents
<1>2. keyFile \in [Dirs -> Contents]
  BY <1>1 DEF Init
<1>3. /\ conf \in Configurations
      /\ made \in Nat
      /\ seed \in [Instances -> Given]
      /\ priv \in [Instances -> Identities \cup {None}]
      /\ last = None
  BY DEF Init, Given
<1>4. starts \in [Instances -> 0..MaxStarts]
  BY IdentityAssumption DEF Init
<1>5. TypeOK
  BY <1>2, <1>3, <1>4 DEF Init, TypeOK
<1> QED
  BY <1>5 DEF IndInv, Init

LEMMA StepInd == Alone /\ IndInv /\ [Next]_vars => IndInv'
<1> SUFFICES ASSUME Alone, IndInv, [Next]_vars PROVE IndInv'
  OBVIOUS
<1>1. TypeOK
  BY DEF IndInv
<1>2. CASE UNCHANGED vars
  BY <1>2, SameExpectation DEF IndInv, TypeOK, vars, locals
<1>3. ASSUME NEW i \in Instances,
             \/ Start(i) \/ ReadSeed(i) \/ ReadKey(i) \/ CreateKeyFile(i)
             \/ WriteKeyFile(i) \/ ParsePeering(i) \/ SetupWithLibp2p(i) \/ Die(i)
      PROVE  IndInv'
  <2>0. \A j \in Instances : j = i
    BY DEF Alone
  <2>1. conf' = conf
    BY <1>3 DEF Start, ReadSeed, ReadKey, CreateKeyFile, WriteKeyFile, ParsePeering,
                SetupWithLibp2p, Die, Fail
  <2> USE SecretsDirIsDir
  <2>f. CASE Fail(i)
    BY <1>1, <2>0, <2>1, <2>f, SameExpectation DEF Fail, Goto, IndInv, TypeOK
  <2>2. CASE Start(i)
    <3>1. starts' \in [Instances -> 0..MaxStarts]
      BY <1>1, <2>2, IdentityAssumption DEF Start, TypeOK
    <3> QED
      BY <1>1, <2>0, <2>1, <2>2, <3>1, SameExpectation DEF Start, Goto, IndInv, TypeOK
  <2>3. CASE ReadSeed(i) /\ ~Fail(i)
    <3>1. /\ pc[i] = "readSeed"
          /\ UNCHANGED <<keyFile, made, starts, last>>
          /\ seed' = [seed EXCEPT ![i] = FoundSeed]
      BY <2>3 DEF ReadSeed, SeedsRead
    <3>2. FoundSeed \in Given
      BY <1>1, SeedFound DEF TypeOK
    <3>3. CASE UseSeed(FoundSeed) /\ FoundSeed \in Seeds
      <4>1. /\ Goto(i, "peering")
            /\ priv' = [priv EXCEPT ![i] = <<FoundSeed, conf.index>>]
        BY <2>3, <3>3 DEF ReadSeed, SeedsRead
      <4>2. <<FoundSeed, conf.index>> \in Identities
        BY <1>1, <3>3, SeedFound DEF TypeOK, Identities
      <4>3. <<FoundSeed, conf.index>> = Expected
        BY <3>3 DEF Expected
      <4> QED
        BY <1>1, <2>0, <2>1, <3>1, <3>2, <4>1, <4>2, <4>3, SameExpectation
           DEF Goto, IndInv, TypeOK
    <3>4. CASE UseSeed(FoundSeed) /\ FoundSeed \notin Seeds
      <4>1. Goto(i, "failed") /\ UNCHANGED priv
        BY <2>3, <3>4 DEF ReadSeed, SeedsRead
      <4> QED
        BY <1>1, <2>0, <2>1, <3>1, <3>2, <4>1, SameExpectation DEF Goto, IndInv, TypeOK
    <3>5. CASE ~UseSeed(FoundSeed)
      <4>1. Goto(i, "readKey") /\ UNCHANGED priv
        BY <2>3, <3>5 DEF ReadSeed, SeedsRead
      <4> QED
        BY <1>1, <2>0, <2>1, <3>1, <3>2, <3>5, <4>1, SameExpectation
           DEF Goto, IndInv, TypeOK
    <3> QED
      BY <3>3, <3>4, <3>5
  <2>4. CASE ReadKey(i) /\ ~Fail(i)
    <3>1. pc[i] = "readKey" /\ ~UseSeed(FoundSeed) /\ Expected = keyFile[secretsDir]
      BY <2>4 DEF ReadKey, IndInv, Expected
    <3>2. UNCHANGED <<conf, keyFile, seed, starts, last>>
      BY <2>4 DEF ReadKey
    <3>3. CASE keyFile[secretsDir] = Absent /\ made' = made + 1
               /\ priv' = [priv EXCEPT ![i] = Key(made)] /\ Goto(i, "create")
      <4>1. Key(made) \in Keys /\ Key(made) \in Identities
        BY <1>1, KeyIsKey DEF TypeOK, Identities
      <4>2. last = None
        <5>1. last # None => last = Absent
          BY <3>1, <3>3 DEF IndInv
        <5>2. Absent \notin Identities
          BY IdentityAssumption, ContentsDiffer DEF Absent, Identities, Derived
        <5> QED
          BY <1>1, <5>1, <5>2 DEF TypeOK
      <4>3. made' \in Nat /\ priv' \in [Instances -> Identities \cup {None}]
        BY <1>1, <3>3, <4>1 DEF TypeOK, Identities
      <4>4. TypeOK'
        BY <1>1, <2>1, <3>2, <3>3, <4>3 DEF TypeOK, Goto
      <4>5. priv'[i] \in Keys /\ pc'[i] = "create"
        BY <1>1, <3>3, <4>1 DEF TypeOK, Goto
      <4> QED
        BY <2>0, <2>1, <3>1, <3>2, <4>2, <4>4, <4>5, SameExpectation DEF IndInv
    <3>4. CASE Goto(i, "lockedOut") /\ UNCHANGED <<made, priv>>
      BY <1>1, <2>0, <2>1, <3>1, <3>2, <3>4, SameExpectation DEF Goto, IndInv, TypeOK
    <3>5. CASE /\ keyFile[secretsDir] \in Keys
               /\ priv' = [priv EXCEPT ![i] = keyFile[secretsDir]]
               /\ Goto(i, "peering") /\ UNCHANGED made
      <4>1. Expected \in Identities
        BY <3>1, <3>5 DEF Identities
      <4> QED
        BY <1>1, <2>0, <2>1, <3>1, <3>2, <3>5, <4>1, SameExpectation
           DEF Goto, IndInv, TypeOK
    <3> QED
      BY <2>4, <3>3, <3>4, <3>5 DEF ReadKey, Parses
  <2>5. CASE CreateKeyFile(i) /\ ~Fail(i)
    <3>1. /\ pc[i] = "create" /\ Goto(i, "write")
          /\ keyFile' = [keyFile EXCEPT ![secretsDir] = Empty]
          /\ UNCHANGED <<made, seed, priv, starts, last>>
      BY <2>5 DEF CreateKeyFile, Saved
    <3>2. last = None /\ ~UseSeed(FoundSeed) /\ priv[i] \in Keys
      BY <3>1 DEF IndInv
    <3>3. keyFile' \in [Dirs -> Contents]
      BY <1>1, <3>1 DEF TypeOK, Contents
    <3> QED
      BY <1>1, <2>0, <2>1, <3>1, <3>2, <3>3, SameExpectation DEF Goto, IndInv, TypeOK
  <2>6. CASE WriteKeyFile(i) /\ ~Fail(i)
    <3>1. /\ pc[i] = "write" /\ Goto(i, "peering")
          /\ keyFile' = [keyFile EXCEPT ![secretsDir] = priv[i]]
          /\ UNCHANGED <<made, seed, priv, starts, last>>
      BY <2>6 DEF WriteKeyFile, Saved
    <3>2. last = None /\ ~UseSeed(FoundSeed) /\ priv[i] \in Keys
      BY <3>1 DEF IndInv
    <3>3. keyFile' \in [Dirs -> Contents] /\ keyFile'[secretsDir] = priv[i]
      BY <1>1, <3>1, <3>2 DEF TypeOK, Contents
    <3>4. Expected' = priv[i]
      <4>1. Expected' = keyFile'[secretsDir']
        BY <2>1, <3>2, SameExpectation DEF Expected
      <4> QED
        BY <2>1, <3>3, <4>1, SameExpectation
    <3> QED
      BY <1>1, <2>0, <2>1, <3>1, <3>2, <3>3, <3>4, SameExpectation
         DEF Goto, IndInv, TypeOK
  <2>7. CASE ParsePeering(i) /\ ~Fail(i)
    BY <1>1, <2>0, <2>1, <2>7, SameExpectation DEF ParsePeering, Goto, IndInv, TypeOK
  <2>8. CASE SetupWithLibp2p(i) /\ ~Fail(i)
    BY <1>1, <2>0, <2>1, <2>8, SameExpectation DEF SetupWithLibp2p, Goto, IndInv, TypeOK
  <2>9. CASE Die(i)
    <3>1. "blank" \in Given
      BY DEF Given
    <3> QED
      BY <1>1, <2>0, <2>1, <2>9, <3>1, SameExpectation DEF Die, Goto, IndInv, TypeOK
  <2> QED
    BY <1>3, <2>f, <2>2, <2>3, <2>4, <2>5, <2>6, <2>7, <2>8, <2>9
<1> QED
  BY <1>2, <1>3 DEF Next

\* As long as starts on one data directory follow one another, what any of them
\* holds, read or wrote agrees with the key that is saved, kills included.
THEOREM IndAlways == Alone /\ Spec => []IndInv
<1> SUFFICES ASSUME Alone PROVE Spec => []IndInv
  OBVIOUS
<1>1. IndInv /\ [Next]_vars => IndInv'
  BY StepInd
<1> QED
  BY <1>1, InitInd, PTL DEF Spec

(***************************************************************************)
(* main.go's help: the key is "used in subsequent runs".                   *)
(***************************************************************************)
THEOREM IdentityIsKept == Alone /\ Spec => IdentityIsStable
<1>1. IndInv /\ [Next]_vars => [last # None => last' = last]_last
  <2> SUFFICES ASSUME IndInv, [Next]_vars, last # None, last' # last
               PROVE  FALSE
    OBVIOUS
  <2>1. PICK i \in Instances : SetupWithLibp2p(i) /\ ~Fail(i)
    BY DEF vars, Next, Start, ReadSeed, ReadKey, CreateKeyFile, WriteKeyFile,
           ParsePeering, Die, Fail
  <2>2. last' = priv[i] /\ priv[i] = Expected
    BY <2>1 DEF SetupWithLibp2p, IndInv
  <2> QED
    BY <2>2 DEF IndInv
<1> QED
  BY <1>1, IndAlways, PTL DEF Spec, IdentityIsStable

(***************************************************************************)
(* The key a node uses is the one it would load again.                     *)
(***************************************************************************)
THEOREM KeyIsSaved == Alone /\ Spec => []KeyInUseIsSaved
<1>1. IndInv => KeyInUseIsSaved
  <2> SUFFICES ASSUME IndInv, NEW i \in Instances, pc[i] = "up", priv[i] \in Keys
               PROVE  keyFile[secretsDir] = priv[i]
    BY DEF KeyInUseIsSaved
  <2>1. priv[i] = Expected
    BY ContentsDiffer DEF IndInv
  <2>2. ~UseSeed(FoundSeed)
    <3>1. FoundSeed \in Given
      BY SeedFound DEF IndInv, TypeOK
    <3>2. <<FoundSeed, conf.index>> \notin Keys
      BY <3>1, IdentityAssumption DEF Given, Keys
    <3> QED
      BY <2>1, <3>2 DEF Expected
  <2> QED
    BY <2>1, <2>2 DEF Expected
<1> QED
  BY <1>1, IndAlways, PTL
=============================================================================
