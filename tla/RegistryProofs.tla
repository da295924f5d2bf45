--------------------------- MODULE RegistryProofs ---------------------------
(***************************************************************************)
(* Proofs about the chaincfg network registry.                             *)
(***************************************************************************)
EXTENDS Registry, TLAPS

\* The HD key IDs of the default networks are four bytes long.
LEMMA DefaultIDsHaveFourBytes ==
  \A i \in 1..4 :
     /\ Len(DefaultNetworks[i].HDPublicKeyID) = 4
     /\ Len(DefaultNetworks[i].HDPrivateKeyID) = 4
  <1>1. /\ Len(MainNetParams.HDPublicKeyID) = 4 /\ Len(MainNetParams.HDPrivateKeyID) = 4
        /\ Len(TestNet4Params.HDPublicKeyID) = 4 /\ Len(TestNet4Params.HDPrivateKeyID) = 4
    BY DEF MainNetParams, TestNet4Params, NetParams, Xprv, Xpub, Tprv, Tpub
  <1>2. /\ Len(RegressionNetParams.HDPublicKeyID) = 4
        /\ Len(RegressionNetParams.HDPrivateKeyID) = 4
        /\ Len(SimNetParams.HDPublicKeyID) = 4 /\ Len(SimNetParams.HDPrivateKeyID) = 4
    BY DEF RegressionNetParams, SimNetParams, NetParams, Tprv, Tpub, Sprv, Spub
  <1>3. \A i \in 1..4 : DefaultNetworks[i] \in {MainNetParams, TestNet4Params,
                                                RegressionNetParams, SimNetParams}
    BY DEF DefaultNetworks
  <1> QED BY <1>1, <1>2, <1>3

\* RegisterOn fails only with ErrDuplicateNet when the IDs are four bytes
\* long, and then it returns the registry it was given.
LEMMA RegisterOnFailureInert ==
  ASSUME NEW r, NEW p,
         Len(p.HDPublicKeyID) = 4, Len(p.HDPrivateKeyID) = 4,
         RegisterOn(r, p).err # "nil"
  PROVE  RegisterOn(r, p).reg = r
  <1>1. CASE p.Net \in r.registeredNets
    BY <1>1 DEF RegisterOn
  <1>2. CASE p.Net \notin r.registeredNets
    <2> DEFINE r1 == [r EXCEPT !.registeredNets = @ \cup {p.Net},
                               !.pubKeyHashAddrIDs = @ \cup {p.PubKeyHashAddrID},
                               !.scriptHashAddrIDs = @ \cup {p.ScriptHashAddrID}]
    <2>1. RegisterHDKeyIDOn(r1, p.HDPublicKeyID, p.HDPrivateKeyID).err = "nil"
      BY DEF RegisterHDKeyIDOn
    <2>2. RegisterOn(r, p).err = "nil"
      BY <1>2, <2>1 DEF RegisterOn
    <2> QED BY <2>2
  <1> QED BY <1>1, <1>2

(***************************************************************************)
(* FailedCallLeavesRegistry, the action property of the registry run, for  *)
(* every set of custom Params: after package init, a Register or           *)
(* RegisterHDKeyID call that returns an error leaves all six maps as they  *)
(* were.  Register's duplicate check precedes its writes, and its HD error *)
(* path, which would keep three writes, needs IDs that are not 4 bytes.    *)
(***************************************************************************)
THEOREM FailedCallLeavesRegistryHolds == Spec => FailedCallLeavesRegistry
  <1>1. ASSUME [Next]_vars, initDone, lastErr' # "nil"
        PROVE  registry' = registry
    <2>1. CASE PackageInit
      BY <1>1, <2>1 DEF PackageInit
    <2>2. CASE \E p \in RegisterInputs : Register(p)
      <3>1. PICK p \in RegisterInputs : Register(p)
        BY <2>2
      <3>2. Len(p.HDPublicKeyID) = 4 /\ Len(p.HDPrivateKeyID) = 4
        BY <3>1, DefaultIDsHaveFourBytes, ParamsShapeAssumption DEF RegisterInputs
      <3>3. registry' = RegisterOn(registry, p).reg
            /\ lastErr' = RegisterOn(registry, p).err
        BY <3>1 DEF Register
      <3> QED BY <1>1, <3>2, <3>3, RegisterOnFailureInert
    <2>3. CASE \E k \in HDKeyInputs : RegisterHDKeyID(k.pub, k.priv)
      <3>1. PICK k \in HDKeyInputs : RegisterHDKeyID(k.pub, k.priv)
        BY <2>3
      <3> QED BY <1>1, <3>1 DEF RegisterHDKeyID, RegisterHDKeyIDOn
    <2>4. CASE UNCHANGED vars
      BY <2>4 DEF vars
    <2> QED BY <1>1, <2>1, <2>2, <2>3, <2>4 DEF Next
  <1> QED BY <1>1, PTL DEF Spec, FailedCallLeavesRegistry

-----------------------------------------------------------------------------
(* The HD key map of a registry r holds only pairs some input carries.     *)
HDMapSound(r) ==
  /\ "hdPrivToPubKeyIDs" \in DOMAIN r
  /\ \A k \in DOMAIN r.hdPrivToPubKeyIDs :
        <<k, r.hdPrivToPubKeyIDs[k]>> \in KeyPairs

(* The inductive invariant behind HDKeyLookupOwn: the map is sound, and    *)
(* every accepted network is an input whose private ID is in the map.      *)
HDInv ==
  /\ HDMapSound(registry)
  /\ \A p \in accepted :
        p \in RegisterInputs
        /\ p.HDPrivateKeyID \in DOMAIN registry.hdPrivToPubKeyIDs

\* Every Register input carries four-byte IDs and a pair of KeyPairs.
LEMMA InputShape ==
  ASSUME NEW p \in RegisterInputs
  PROVE  /\ Len(p.HDPublicKeyID) = 4 /\ Len(p.HDPrivateKeyID) = 4
         /\ <<p.HDPrivateKeyID, p.HDPublicKeyID>> \in KeyPairs
  <1>1. Len(p.HDPublicKeyID) = 4 /\ Len(p.HDPrivateKeyID) = 4
    BY DefaultIDsHaveFourBytes, ParamsShapeAssumption DEF RegisterInputs
  <1>2. <<p.HDPrivateKeyID, p.HDPublicKeyID>> \in KeyPairs
    BY DEF KeyPairs
  <1> QED BY <1>1, <1>2

\* RegisterHDKeyID with a pair of KeyPairs keeps the map sound, only adds
\* to its domain, and on success puts the private ID in it.
LEMMA HDKeyIDOnSound ==
  ASSUME NEW r, NEW pub, NEW priv, HDMapSound(r),
         Len(pub) = 4 /\ Len(priv) = 4 => <<priv, pub>> \in KeyPairs
  PROVE  LET s == RegisterHDKeyIDOn(r, pub, priv) IN
         /\ HDMapSound(s.reg)
         /\ DOMAIN r.hdPrivToPubKeyIDs \subseteq DOMAIN s.reg.hdPrivToPubKeyIDs
         /\ s.err = "nil" => priv \in DOMAIN s.reg.hdPrivToPubKeyIDs
  <1>1. CASE Len(pub) # 4 \/ Len(priv) # 4
    BY <1>1 DEF RegisterHDKeyIDOn
  <1>2. CASE ~(Len(pub) # 4 \/ Len(priv) # 4)
    <2>1. RegisterHDKeyIDOn(r, pub, priv).reg.hdPrivToPubKeyIDs
            = MapPut(r.hdPrivToPubKeyIDs, priv, pub)
      BY <1>2 DEF RegisterHDKeyIDOn, HDMapSound
    <2>2. "hdPrivToPubKeyIDs" \in DOMAIN RegisterHDKeyIDOn(r, pub, priv).reg
      BY <1>2 DEF RegisterHDKeyIDOn, HDMapSound
    <2>3. RegisterHDKeyIDOn(r, pub, priv).err = "nil"
      BY <1>2 DEF RegisterHDKeyIDOn
    <2>4. DOMAIN (MapPut(r.hdPrivToPubKeyIDs, priv, pub))
            = {priv} \cup DOMAIN r.hdPrivToPubKeyIDs
      BY DEF MapPut
    <2>5. \A k \in DOMAIN (MapPut(r.hdPrivToPubKeyIDs, priv, pub)) :
            <<k, (MapPut(r.hdPrivToPubKeyIDs, priv, pub))[k]>> \in KeyPairs
      BY <1>2 DEF HDMapSound, MapPut
    <2> QED BY <2>1, <2>2, <2>3, <2>4, <2>5 DEF HDMapSound
  <1> QED BY <1>1, <1>2


\* Register of an input keeps the map sound, only adds to its domain, and
\* on success puts the input's private ID in it.
LEMMA RegisterOnSound ==
  ASSUME NEW r, NEW p \in RegisterInputs, HDMapSound(r)
  PROVE  /\ HDMapSound(RegisterOn(r, p).reg)
         /\ DOMAIN r.hdPrivToPubKeyIDs
              \subseteq DOMAIN RegisterOn(r, p).reg.hdPrivToPubKeyIDs
         /\ RegisterOn(r, p).err = "nil"
              => p.HDPrivateKeyID \in DOMAIN RegisterOn(r, p).reg.hdPrivToPubKeyIDs
  <1>1. CASE p.Net \in r.registeredNets
    BY <1>1 DEF RegisterOn
  <1>2. CASE p.Net \notin r.registeredNets
    <2> DEFINE r1 == [r EXCEPT !.registeredNets = @ \cup {p.Net},
                               !.pubKeyHashAddrIDs = @ \cup {p.PubKeyHashAddrID},
                               !.scriptHashAddrIDs = @ \cup {p.ScriptHashAddrID}]
               hd == RegisterHDKeyIDOn(r1, p.HDPublicKeyID, p.HDPrivateKeyID)
    <2>1. HDMapSound(r1) /\ r1.hdPrivToPubKeyIDs = r.hdPrivToPubKeyIDs
      BY DEF HDMapSound
    <2>2. /\ HDMapSound(hd.reg)
          /\ DOMAIN r1.hdPrivToPubKeyIDs \subseteq DOMAIN hd.reg.hdPrivToPubKeyIDs
          /\ hd.err = "nil" => p.HDPrivateKeyID \in DOMAIN hd.reg.hdPrivToPubKeyIDs
      BY <2>1, InputShape, HDKeyIDOnSound
    <2>3. hd.err = "nil"
      BY InputShape DEF RegisterHDKeyIDOn
    <2>4. RegisterOn(r, p).reg
            = [hd.reg EXCEPT
                 !.bech32SegwitPrefixes = @ \cup {p.Bech32HRPSegwit \o <<"1">>},
                 !.bech32MwebPrefixes = @ \cup {p.Bech32HRPMweb \o <<"1">>}]
      BY <1>2, <2>3 DEF RegisterOn
    <2>5. /\ HDMapSound(RegisterOn(r, p).reg)
          /\ RegisterOn(r, p).reg.hdPrivToPubKeyIDs = hd.reg.hdPrivToPubKeyIDs
      BY <2>2, <2>4 DEF HDMapSound
    <2> QED BY <2>1, <2>2, <2>3, <2>5
  <1> QED BY <1>1, <1>2

\* mustRegister of an input, after calls that left a sound map, leaves a
\* sound map with a larger domain; success means every call so far
\* succeeded and the input's private ID is in the map.
LEMMA MustRegisterOnSound ==
  ASSUME NEW prev, NEW p \in RegisterInputs, HDMapSound(prev.reg)
  PROVE  LET m == MustRegisterOn(prev, p) IN
         /\ HDMapSound(m.reg)
         /\ DOMAIN prev.reg.hdPrivToPubKeyIDs \subseteq DOMAIN m.reg.hdPrivToPubKeyIDs
         /\ m.err = "nil"
              => prev.err = "nil" /\ p.HDPrivateKeyID \in DOMAIN m.reg.hdPrivToPubKeyIDs
  BY RegisterOnSound DEF MustRegisterOn


\* Package init leaves a sound map, and if no mustRegister panicked, the
\* private IDs of all four default networks are in it.
LEMMA PackageInitSound ==
  LET m1 == MustRegisterOn([reg |-> EmptyRegistry, err |-> "nil"], MainNetParams)
      m2 == MustRegisterOn(m1, TestNet4Params)
      m3 == MustRegisterOn(m2, RegressionNetParams)
      m4 == MustRegisterOn(m3, SimNetParams)
  IN  /\ HDMapSound(m4.reg)
      /\ m4.err = "nil" =>
           \A i \in 1..4 :
              DefaultNetworks[i].HDPrivateKeyID \in DOMAIN m4.reg.hdPrivToPubKeyIDs
  <1> DEFINE m0 == [reg |-> EmptyRegistry, err |-> "nil"]
             m1 == MustRegisterOn(m0, MainNetParams)
             m2 == MustRegisterOn(m1, TestNet4Params)
             m3 == MustRegisterOn(m2, RegressionNetParams)
             m4 == MustRegisterOn(m3, SimNetParams)
  <1>0. /\ MainNetParams \in RegisterInputs /\ TestNet4Params \in RegisterInputs
        /\ RegressionNetParams \in RegisterInputs /\ SimNetParams \in RegisterInputs
    BY DEF RegisterInputs, DefaultNetworks
  <1>1. HDMapSound(m0.reg)
    BY DEF HDMapSound, EmptyRegistry
  <1>2. HDMapSound(m1.reg) /\ DOMAIN m0.reg.hdPrivToPubKeyIDs \subseteq DOMAIN m1.reg.hdPrivToPubKeyIDs
        /\ (m1.err = "nil" => m0.err = "nil" /\ MainNetParams.HDPrivateKeyID \in DOMAIN m1.reg.hdPrivToPubKeyIDs)
    BY <1>0, <1>1, MustRegisterOnSound
  <1>3. HDMapSound(m2.reg) /\ DOMAIN m1.reg.hdPrivToPubKeyIDs \subseteq DOMAIN m2.reg.hdPrivToPubKeyIDs
        /\ (m2.err = "nil" => m1.err = "nil" /\ TestNet4Params.HDPrivateKeyID \in DOMAIN m2.reg.hdPrivToPubKeyIDs)
    BY <1>0, <1>2, MustRegisterOnSound
  <1>4. HDMapSound(m3.reg) /\ DOMAIN m2.reg.hdPrivToPubKeyIDs \subseteq DOMAIN m3.reg.hdPrivToPubKeyIDs
        /\ (m3.err = "nil" => m2.err = "nil" /\ RegressionNetParams.HDPrivateKeyID \in DOMAIN m3.reg.hdPrivToPubKeyIDs)
    BY <1>0, <1>3, MustRegisterOnSound
  <1>5. HDMapSound(m4.reg) /\ DOMAIN m3.reg.hdPrivToPubKeyIDs \subseteq DOMAIN m4.reg.hdPrivToPubKeyIDs
        /\ (m4.err = "nil" => m3.err = "nil" /\ SimNetParams.HDPrivateKeyID \in DOMAIN m4.reg.hdPrivToPubKeyIDs)
    BY <1>0, <1>4, MustRegisterOnSound
  <1>6. m4.err = "nil" =>
           /\ MainNetParams.HDPrivateKeyID \in DOMAIN m4.reg.hdPrivToPubKeyIDs
           /\ TestNet4Params.HDPrivateKeyID \in DOMAIN m4.reg.hdPrivToPubKeyIDs
           /\ RegressionNetParams.HDPrivateKeyID \in DOMAIN m4.reg.hdPrivToPubKeyIDs
           /\ SimNetParams.HDPrivateKeyID \in DOMAIN m4.reg.hdPrivToPubKeyIDs
    BY <1>2, <1>3, <1>4, <1>5
  <1>7. \A i \in 1..4 : DefaultNetworks[i] \in {MainNetParams, TestNet4Params,
                                                RegressionNetParams, SimNetParams}
    BY DEF DefaultNetworks
  <1> QED BY <1>5, <1>6, <1>7


(***************************************************************************)
(* HDKeyLookupOwn, the invariant of the registry run, for every set of     *)
(* custom Params and RegisterHDKeyID inputs in which no private key ID is  *)
(* paired with two public IDs: HDPrivateKeyToPublicKeyID of a registered   *)
(* network's private ID returns that network's public ID, whatever         *)
(* Register and RegisterHDKeyID calls came after it.  The map of           *)
(* RegisterHDKeyID only ever grows, and each entry it holds is a pair some *)
(* input carries (HDInv); under ConsistentHDKeys that pair is the          *)
(* network's own.  The hd_rebind run shows the condition is needed.        *)
(***************************************************************************)
THEOREM HDKeyLookupOwnHolds ==
  ASSUME ConsistentHDKeys PROVE Spec => []HDKeyLookupOwn
  <1>1. Init => HDInv
    BY DEF Init, HDInv, HDMapSound, EmptyRegistry
  <1>2. HDInv /\ [Next]_vars => HDInv'
    <2> SUFFICES ASSUME HDInv, [Next]_vars PROVE HDInv'
      OBVIOUS
    <2>1. CASE PackageInit
      BY <2>1, PackageInitSound DEF PackageInit, HDInv, DefaultNetworks, RegisterInputs
    <2>2. CASE \E p \in RegisterInputs : Register(p)
      <3>1. PICK p \in RegisterInputs : Register(p)
        BY <2>2
      <3>2. /\ HDMapSound(RegisterOn(registry, p).reg)
            /\ DOMAIN registry.hdPrivToPubKeyIDs
                 \subseteq DOMAIN RegisterOn(registry, p).reg.hdPrivToPubKeyIDs
            /\ RegisterOn(registry, p).err = "nil"
                 => p.HDPrivateKeyID \in DOMAIN RegisterOn(registry, p).reg.hdPrivToPubKeyIDs
        BY RegisterOnSound DEF HDInv
      <3> QED BY <3>1, <3>2 DEF Register, HDInv
    <2>3. CASE \E k \in HDKeyInputs : RegisterHDKeyID(k.pub, k.priv)
      <3>1. PICK k \in HDKeyInputs : RegisterHDKeyID(k.pub, k.priv)
        BY <2>3
      <3>2. Len(k.pub) = 4 /\ Len(k.priv) = 4 => <<k.priv, k.pub>> \in KeyPairs
        BY DEF KeyPairs
      <3>3. /\ HDMapSound(RegisterHDKeyIDOn(registry, k.pub, k.priv).reg)
            /\ DOMAIN registry.hdPrivToPubKeyIDs
                 \subseteq DOMAIN RegisterHDKeyIDOn(registry, k.pub, k.priv).reg.hdPrivToPubKeyIDs
        BY <3>2, HDKeyIDOnSound DEF HDInv
      <3> QED BY <3>1, <3>3 DEF RegisterHDKeyID, HDInv
    <2>4. CASE UNCHANGED vars
      BY <2>4 DEF vars, HDInv, HDMapSound
    <2> QED BY <2>1, <2>2, <2>3, <2>4 DEF Next
  <1>3. HDInv => HDKeyLookupOwn
    <2> SUFFICES ASSUME HDInv, NEW p \in accepted
                 PROVE  HDPrivateKeyToPublicKeyID(p.HDPrivateKeyID)
                          = [id |-> p.HDPublicKeyID, err |-> "nil"]
      BY DEF HDKeyLookupOwn
    <2>1. p \in RegisterInputs /\ p.HDPrivateKeyID \in DOMAIN registry.hdPrivToPubKeyIDs
      BY DEF HDInv
    <2>2. Len(p.HDPrivateKeyID) = 4 /\ <<p.HDPrivateKeyID, p.HDPublicKeyID>> \in KeyPairs
      BY <2>1, InputShape
    <2>3. <<p.HDPrivateKeyID, registry.hdPrivToPubKeyIDs[p.HDPrivateKeyID]>> \in KeyPairs
      BY <2>1 DEF HDInv, HDMapSound
    <2>4. registry.hdPrivToPubKeyIDs[p.HDPrivateKeyID] = p.HDPublicKeyID
      BY <2>2, <2>3 DEF ConsistentHDKeys
    <2> QED BY <2>1, <2>2, <2>4 DEF HDPrivateKeyToPublicKeyID
  <1> QED BY <1>1, <1>2, <1>3, PTL DEF Spec

=============================================================================
