-------------------------- MODULE DirectoryProofs ---------------------------
(***************************************************************************)
(* Proofs that the chaincfg registry implements the network directory its  *)
(* doc comments describe, and that its lookups answer as the directory     *)
(* does.  The argument rests on a representation invariant: after a       *)
(* package init that did not panic, each of the five set-like maps holds   *)
(* exactly the values that the accepted networks carry.                    *)
(***************************************************************************)
EXTENDS RegistryProofs

\* The six maps of a registry.
RegFields ==
  {"registeredNets", "pubKeyHashAddrIDs", "scriptHashAddrIDs",
   "bech32SegwitPrefixes", "bech32MwebPrefixes", "hdPrivToPubKeyIDs"}

\* The five set-like maps of registry r hold exactly what the networks in
\* S carry.
Rep(r, S) ==
  /\ DOMAIN r = RegFields
  /\ r.registeredNets = {p.Net : p \in S}
  /\ r.pubKeyHashAddrIDs = {p.PubKeyHashAddrID : p \in S}
  /\ r.scriptHashAddrIDs = {p.ScriptHashAddrID : p \in S}
  /\ r.bech32SegwitPrefixes = {p.Bech32HRPSegwit \o <<"1">> : p \in S}
  /\ r.bech32MwebPrefixes = {p.Bech32HRPMweb \o <<"1">> : p \in S}

\* The inductive invariant: before init nothing is registered; after an
\* init that did not panic the maps represent the accepted networks.
RepInv ==
  /\ ~initDone => registry = EmptyRegistry /\ accepted = {} /\ ~panicked
  /\ initDone /\ ~panicked => Rep(registry, accepted)
  /\ accepted \subseteq RegisterInputs

\* The three writes Register makes before RegisterHDKeyID.
FirstWrites(r, p) ==
  [r EXCEPT !.registeredNets = @ \cup {p.Net},
            !.pubKeyHashAddrIDs = @ \cup {p.PubKeyHashAddrID},
            !.scriptHashAddrIDs = @ \cup {p.ScriptHashAddrID}]

\* Register on a registry that represents S succeeds exactly when the Net
\* is new, then represents S \cup {p} and binds p's key IDs; a failure
\* returns the registry unchanged.
LEMMA RegisterOnRep ==
  ASSUME NEW r, NEW S, NEW p \in RegisterInputs, Rep(r, S)
  PROVE  /\ RegisterOn(r, p).err = "nil" <=> p.Net \notin {q.Net : q \in S}
         /\ RegisterOn(r, p).err = "nil" =>
              /\ Rep(RegisterOn(r, p).reg, S \cup {p})
              /\ RegisterOn(r, p).reg.hdPrivToPubKeyIDs
                   = MapPut(r.hdPrivToPubKeyIDs, p.HDPrivateKeyID, p.HDPublicKeyID)
         /\ RegisterOn(r, p).err # "nil" => RegisterOn(r, p).reg = r
  <1>1. Len(p.HDPublicKeyID) = 4 /\ Len(p.HDPrivateKeyID) = 4
    BY InputShape
  <1>2. r.registeredNets = {q.Net : q \in S}
    BY DEF Rep
  <1>3. CASE p.Net \in {q.Net : q \in S}
    BY <1>2, <1>3 DEF RegisterOn
  <1>4. CASE p.Net \notin {q.Net : q \in S}
    <2>1. p.Net \notin r.registeredNets
      BY <1>2, <1>4
    <2>2. RegisterOn(r, p).err = "nil"
      BY <1>1, <2>1 DEF RegisterOn, RegisterHDKeyIDOn
    <2>3. DOMAIN RegisterOn(r, p).reg = RegFields
      BY <1>1, <2>1 DEF RegisterOn, RegisterHDKeyIDOn, Rep
    <2>4. /\ RegisterOn(r, p).reg.registeredNets = r.registeredNets \cup {p.Net}
          /\ RegisterOn(r, p).reg.pubKeyHashAddrIDs
               = r.pubKeyHashAddrIDs \cup {p.PubKeyHashAddrID}
          /\ RegisterOn(r, p).reg.scriptHashAddrIDs
               = r.scriptHashAddrIDs \cup {p.ScriptHashAddrID}
      BY <1>1, <2>1 DEF RegisterOn, RegisterHDKeyIDOn, Rep, RegFields
    <2>5. /\ RegisterOn(r, p).reg.bech32SegwitPrefixes
               = r.bech32SegwitPrefixes \cup {p.Bech32HRPSegwit \o <<"1">>}
          /\ RegisterOn(r, p).reg.bech32MwebPrefixes
               = r.bech32MwebPrefixes \cup {p.Bech32HRPMweb \o <<"1">>}
      BY <1>1, <2>1 DEF RegisterOn, RegisterHDKeyIDOn, Rep, RegFields
    <2>6. RegisterOn(r, p).reg.hdPrivToPubKeyIDs
            = MapPut(r.hdPrivToPubKeyIDs, p.HDPrivateKeyID, p.HDPublicKeyID)
      BY <1>1, <2>1 DEF RegisterOn, RegisterHDKeyIDOn, Rep, RegFields
    <2>7. /\ {q.Net : q \in S \cup {p}} = {q.Net : q \in S} \cup {p.Net}
          /\ {q.PubKeyHashAddrID : q \in S \cup {p}}
               = {q.PubKeyHashAddrID : q \in S} \cup {p.PubKeyHashAddrID}
          /\ {q.ScriptHashAddrID : q \in S \cup {p}}
               = {q.ScriptHashAddrID : q \in S} \cup {p.ScriptHashAddrID}
          /\ {q.Bech32HRPSegwit \o <<"1">> : q \in S \cup {p}}
               = {q.Bech32HRPSegwit \o <<"1">> : q \in S} \cup {p.Bech32HRPSegwit \o <<"1">>}
          /\ {q.Bech32HRPMweb \o <<"1">> : q \in S \cup {p}}
               = {q.Bech32HRPMweb \o <<"1">> : q \in S} \cup {p.Bech32HRPMweb \o <<"1">>}
      OBVIOUS
    <2>8. Rep(RegisterOn(r, p).reg, S \cup {p})
      <3>1. /\ r.registeredNets = {q.Net : q \in S}
            /\ r.pubKeyHashAddrIDs = {q.PubKeyHashAddrID : q \in S}
            /\ r.scriptHashAddrIDs = {q.ScriptHashAddrID : q \in S}
            /\ r.bech32SegwitPrefixes = {q.Bech32HRPSegwit \o <<"1">> : q \in S}
            /\ r.bech32MwebPrefixes = {q.Bech32HRPMweb \o <<"1">> : q \in S}
        BY DEF Rep
      <3> QED BY <2>3, <2>4, <2>5, <2>7, <3>1 DEF Rep
    <2> QED BY <1>4, <2>2, <2>6, <2>8
  <1> QED BY <1>3, <1>4

\* mustRegister after calls that, if all succeeded, left a registry that
\* represents S: success means they all succeeded and p is added.
LEMMA MustRegisterOnRep ==
  ASSUME NEW prev, NEW S, NEW p \in RegisterInputs,
         prev.err = "nil" => Rep(prev.reg, S)
  PROVE  MustRegisterOn(prev, p).err = "nil" =>
           /\ prev.err = "nil"
           /\ Rep(MustRegisterOn(prev, p).reg, S \cup {p})
           /\ MustRegisterOn(prev, p).reg.hdPrivToPubKeyIDs
                = MapPut(prev.reg.hdPrivToPubKeyIDs, p.HDPrivateKeyID, p.HDPublicKeyID)
  BY RegisterOnRep DEF MustRegisterOn

\* A package init that does not panic leaves a registry that represents the
\* four default networks, with their key bindings in init order.
LEMMA PackageInitRep ==
  LET m1 == MustRegisterOn([reg |-> EmptyRegistry, err |-> "nil"], MainNetParams)
      m2 == MustRegisterOn(m1, TestNet4Params)
      m3 == MustRegisterOn(m2, RegressionNetParams)
      m4 == MustRegisterOn(m3, SimNetParams)
  IN  m4.err = "nil" =>
        /\ Rep(m4.reg, {DefaultNetworks[i] : i \in 1..4})
        /\ m4.reg.hdPrivToPubKeyIDs = Dir!DefaultKeys
  <1> DEFINE m0 == [reg |-> EmptyRegistry, err |-> "nil"]
             m1 == MustRegisterOn(m0, MainNetParams)
             m2 == MustRegisterOn(m1, TestNet4Params)
             m3 == MustRegisterOn(m2, RegressionNetParams)
             m4 == MustRegisterOn(m3, SimNetParams)
  <1>0. /\ MainNetParams \in RegisterInputs /\ TestNet4Params \in RegisterInputs
        /\ RegressionNetParams \in RegisterInputs /\ SimNetParams \in RegisterInputs
    BY DEF RegisterInputs, DefaultNetworks
  <1>1. m0.err = "nil" => Rep(m0.reg, {})
    BY DEF Rep, EmptyRegistry, RegFields
  <1>2. m1.err = "nil" => m0.err = "nil" /\ Rep(m1.reg, {MainNetParams})
          /\ m1.reg.hdPrivToPubKeyIDs = MapPut(<<>>, MainNetParams.HDPrivateKeyID,
                                                MainNetParams.HDPublicKeyID)
    <2>1. {} \cup {MainNetParams} = {MainNetParams}
      OBVIOUS
    <2>2. m1.err = "nil" => m0.err = "nil" /\ Rep(m1.reg, {} \cup {MainNetParams})
            /\ m1.reg.hdPrivToPubKeyIDs = MapPut(m0.reg.hdPrivToPubKeyIDs,
                   MainNetParams.HDPrivateKeyID, MainNetParams.HDPublicKeyID)
      BY <1>0, <1>1, MustRegisterOnRep
    <2>3. m0.reg.hdPrivToPubKeyIDs = <<>>
      BY DEF EmptyRegistry
    <2> QED BY <2>1, <2>2, <2>3
  <1>3. m2.err = "nil" => m1.err = "nil" /\ Rep(m2.reg, {MainNetParams, TestNet4Params})
          /\ m2.reg.hdPrivToPubKeyIDs = MapPut(m1.reg.hdPrivToPubKeyIDs,
                 TestNet4Params.HDPrivateKeyID, TestNet4Params.HDPublicKeyID)
    <2>1. m2.err = "nil" => m1.err = "nil"
            /\ Rep(m2.reg, {MainNetParams} \cup {TestNet4Params})
            /\ m2.reg.hdPrivToPubKeyIDs = MapPut(m1.reg.hdPrivToPubKeyIDs,
                   TestNet4Params.HDPrivateKeyID, TestNet4Params.HDPublicKeyID)
      BY <1>0, <1>2, MustRegisterOnRep
    <2>2. {MainNetParams} \cup {TestNet4Params} = {MainNetParams, TestNet4Params}
      OBVIOUS
    <2> QED BY <2>1, <2>2
  <1>4. m3.err = "nil" => m2.err = "nil"
          /\ Rep(m3.reg, {MainNetParams, TestNet4Params, RegressionNetParams})
          /\ m3.reg.hdPrivToPubKeyIDs = MapPut(m2.reg.hdPrivToPubKeyIDs,
                 RegressionNetParams.HDPrivateKeyID, RegressionNetParams.HDPublicKeyID)
    <2>1. m3.err = "nil" => m2.err = "nil"
            /\ Rep(m3.reg, {MainNetParams, TestNet4Params} \cup {RegressionNetParams})
            /\ m3.reg.hdPrivToPubKeyIDs = MapPut(m2.reg.hdPrivToPubKeyIDs,
                   RegressionNetParams.HDPrivateKeyID, RegressionNetParams.HDPublicKeyID)
      BY <1>0, <1>3, MustRegisterOnRep
    <2>2. {MainNetParams, TestNet4Params} \cup {RegressionNetParams}
            = {MainNetParams, TestNet4Params, RegressionNetParams}
      OBVIOUS
    <2> QED BY <2>1, <2>2
  <1>5. m4.err = "nil" => m3.err = "nil"
          /\ Rep(m4.reg, {MainNetParams, TestNet4Params, RegressionNetParams, SimNetParams})
          /\ m4.reg.hdPrivToPubKeyIDs = MapPut(m3.reg.hdPrivToPubKeyIDs,
                 SimNetParams.HDPrivateKeyID, SimNetParams.HDPublicKeyID)
    <2>1. m4.err = "nil" => m3.err = "nil"
            /\ Rep(m4.reg, {MainNetParams, TestNet4Params, RegressionNetParams}
                             \cup {SimNetParams})
            /\ m4.reg.hdPrivToPubKeyIDs = MapPut(m3.reg.hdPrivToPubKeyIDs,
                   SimNetParams.HDPrivateKeyID, SimNetParams.HDPublicKeyID)
      BY <1>0, <1>4, MustRegisterOnRep
    <2>2. {MainNetParams, TestNet4Params, RegressionNetParams} \cup {SimNetParams}
            = {MainNetParams, TestNet4Params, RegressionNetParams, SimNetParams}
      OBVIOUS
    <2> QED BY <2>1, <2>2
  <1>6. {DefaultNetworks[i] : i \in 1..4}
          = {MainNetParams, TestNet4Params, RegressionNetParams, SimNetParams}
    BY DEF DefaultNetworks
  <1>7. m4.err = "nil" => m4.reg.hdPrivToPubKeyIDs = Dir!DefaultKeys
    BY <1>2, <1>3, <1>4, <1>5 DEF Dir!DefaultKeys, Dir!Bind, MapPut, DefaultNetworks
  <1> QED BY <1>5, <1>6, <1>7


\* RegisterHDKeyID changes only the HD map, so it keeps a representation.
LEMMA HDKeyIDOnRep ==
  ASSUME NEW r, NEW S, NEW pub, NEW priv, Rep(r, S)
  PROVE  Rep(RegisterHDKeyIDOn(r, pub, priv).reg, S)
  BY DEF RegisterHDKeyIDOn, Rep, RegFields

\* The representation invariant holds in every reachable state.
LEMMA RepInvariant == Spec => []RepInv
  <1>1. Init => RepInv
    BY DEF Init, RepInv
  <1>2. RepInv /\ [Next]_vars => RepInv'
    <2> SUFFICES ASSUME RepInv, [Next]_vars PROVE RepInv'
      OBVIOUS
    <2>1. CASE PackageInit
      <3> DEFINE done == MustRegisterOn(MustRegisterOn(MustRegisterOn(MustRegisterOn(
                           [reg |-> EmptyRegistry, err |-> "nil"],
                           MainNetParams), TestNet4Params), RegressionNetParams),
                           SimNetParams)
      <3>1. /\ registry' = done.reg /\ initDone' /\ panicked' = (done.err # "nil")
            /\ accepted' = IF done.err = "nil"
                           THEN {DefaultNetworks[i] : i \in 1..4} ELSE {}
        BY <2>1 DEF PackageInit, DefaultNetworks
      <3>2. done.err = "nil" => Rep(done.reg, {DefaultNetworks[i] : i \in 1..4})
        BY PackageInitRep
      <3>3. {DefaultNetworks[i] : i \in 1..4} \subseteq RegisterInputs
        BY DEF RegisterInputs
      <3> QED BY <3>1, <3>2, <3>3 DEF RepInv
    <2>2. CASE \E p \in RegisterInputs : Register(p)
      <3>1. PICK p \in RegisterInputs : Register(p)
        BY <2>2
      <3>2. initDone /\ ~panicked /\ Rep(registry, accepted)
        BY <3>1 DEF Register, RepInv
      <3>3. /\ RegisterOn(registry, p).err = "nil" =>
                 Rep(RegisterOn(registry, p).reg, accepted \cup {p})
            /\ RegisterOn(registry, p).err # "nil" =>
                 RegisterOn(registry, p).reg = registry
        BY <3>2, RegisterOnRep
      <3> QED BY <3>1, <3>2, <3>3 DEF Register, RepInv
    <2>3. CASE \E k \in HDKeyInputs : RegisterHDKeyID(k.pub, k.priv)
      <3>1. PICK k \in HDKeyInputs : RegisterHDKeyID(k.pub, k.priv)
        BY <2>3
      <3>2. initDone /\ ~panicked /\ Rep(registry, accepted)
        BY <3>1 DEF RegisterHDKeyID, RepInv
      <3>3. Rep(RegisterHDKeyIDOn(registry, k.pub, k.priv).reg, accepted)
        BY <3>2, HDKeyIDOnRep
      <3> QED BY <3>1, <3>2, <3>3 DEF RegisterHDKeyID, RepInv
    <2>4. CASE UNCHANGED vars
      BY <2>4 DEF vars, RepInv, Rep
    <2> QED BY <2>1, <2>2, <2>3, <2>4 DEF Next
  <1> QED BY <1>1, <1>2, PTL DEF Spec


(***************************************************************************)
(* ImplementsDirectory, a property of the registry run, for every set of   *)
(* custom Params and RegisterHDKeyID inputs: under the mapping of Dir      *)
(* (networks are the accepted Params, the key bindings the HD map, the     *)
(* phase follows package init), package init is the directory's Boot, a   *)
(* Register that returns nil adds a network whose Net was not yet in the   *)
(* directory, a RegisterHDKeyID that returns nil binds a key, and a call   *)
(* that fails is a stutter.  RepInv supplies the link between the          *)
(* registeredNets map that Register checks and the directory's networks.   *)
(***************************************************************************)
THEOREM RegistryImplementsDirectory == Spec => ImplementsDirectory
  <1>1. Init => Dir!DirInit
    BY DEF Init, Dir!DirInit, EmptyRegistry
  <1>2. RepInv /\ [Next]_vars => [Dir!DirNext]_Dir!dirVars
    <2> SUFFICES ASSUME RepInv, [Next]_vars PROVE [Dir!DirNext]_Dir!dirVars
      OBVIOUS
    <2>1. CASE PackageInit
      <3> DEFINE done == MustRegisterOn(MustRegisterOn(MustRegisterOn(MustRegisterOn(
                           [reg |-> EmptyRegistry, err |-> "nil"],
                           MainNetParams), TestNet4Params), RegressionNetParams),
                           SimNetParams)
      <3>1. /\ registry' = done.reg /\ initDone' /\ ~initDone
            /\ panicked' = (done.err # "nil")
            /\ accepted' = IF done.err = "nil"
                           THEN {DefaultNetworks[i] : i \in 1..4} ELSE {}
        BY <2>1 DEF PackageInit, DefaultNetworks
      <3>2. registry = EmptyRegistry /\ accepted = {} /\ ~panicked
        BY <3>1 DEF RepInv
      <3>3. done.err = "nil" => done.reg.hdPrivToPubKeyIDs = Dir!DefaultKeys
        BY PackageInitRep
      <3>4. Dir!Boot
        BY <3>1, <3>2, <3>3 DEF Dir!Boot, EmptyRegistry
      <3> QED BY <3>4 DEF Dir!DirNext
    <2>2. CASE \E p \in RegisterInputs : Register(p)
      <3>1. PICK p \in RegisterInputs : Register(p)
        BY <2>2
      <3>2. initDone /\ ~panicked /\ Rep(registry, accepted)
        BY <3>1 DEF Register, RepInv
      <3>3. /\ RegisterOn(registry, p).err = "nil"
                 <=> p.Net \notin {q.Net : q \in accepted}
            /\ RegisterOn(registry, p).err = "nil" =>
                 RegisterOn(registry, p).reg.hdPrivToPubKeyIDs
                   = MapPut(registry.hdPrivToPubKeyIDs, p.HDPrivateKeyID, p.HDPublicKeyID)
            /\ RegisterOn(registry, p).err # "nil" =>
                 RegisterOn(registry, p).reg = registry
        BY <3>2, RegisterOnRep
      <3>4. CASE RegisterOn(registry, p).err = "nil"
        <4>1. Dir!AddNetwork(p)
          BY <3>1, <3>2, <3>3, <3>4 DEF Register, Dir!AddNetwork, Dir!Bind, MapPut
        <4> QED BY <4>1 DEF Dir!DirNext, RegisterInputs
      <3>5. CASE RegisterOn(registry, p).err # "nil"
        BY <3>1, <3>3, <3>5 DEF Register, Dir!dirVars
      <3> QED BY <3>4, <3>5
    <2>3. CASE \E k \in HDKeyInputs : RegisterHDKeyID(k.pub, k.priv)
      <3>1. PICK k \in HDKeyInputs : RegisterHDKeyID(k.pub, k.priv)
        BY <2>3
      <3>2. initDone /\ ~panicked /\ "hdPrivToPubKeyIDs" \in DOMAIN registry
        BY <3>1 DEF RegisterHDKeyID, RepInv, Rep, RegFields
      <3>3. CASE Len(k.pub) = 4 /\ Len(k.priv) = 4
        <4>1. Dir!BindKey(k.pub, k.priv)
          BY <3>1, <3>2, <3>3 DEF RegisterHDKeyID, RegisterHDKeyIDOn, Dir!BindKey,
                                  Dir!Bind, MapPut
        <4> QED BY <4>1 DEF Dir!DirNext
      <3>4. CASE ~(Len(k.pub) = 4 /\ Len(k.priv) = 4)
        BY <3>1, <3>4 DEF RegisterHDKeyID, RegisterHDKeyIDOn, Dir!dirVars
      <3> QED BY <3>3, <3>4
    <2>4. CASE UNCHANGED vars
      BY <2>4 DEF vars, Dir!dirVars
    <2> QED BY <2>1, <2>2, <2>3, <2>4 DEF Next
  <1> QED BY <1>1, <1>2, RepInvariant, PTL DEF Spec, ImplementsDirectory, Dir!DirSpec


(***************************************************************************)
(* LookupsMatchDirectory, the invariant of the registry run, for every set *)
(* of inputs whose human-readable parts are in lower case: after package  *)
(* init, IsPubKeyHashAddrID, IsScriptHashAddrID, IsBech32SegwitPrefix and  *)
(* IsBech32MwebPrefix each answer true exactly for what an accepted       *)
(* network carries.  It follows from RepInv; the lower-case condition is   *)
(* needed because Register stores the HRP as given while the lookups      *)
(* lower-case what they are asked.                                         *)
(***************************************************************************)
THEOREM LookupsMatchDirectoryHolds ==
  ASSUME LowerCaseHRPs PROVE Spec => []LookupsMatchDirectory
  <1>1. RepInv => LookupsMatchDirectory
    <2> SUFFICES ASSUME RepInv, initDone, ~panicked
                 PROVE  /\ \A id \in ProbeIDs :
                              /\ IsPubKeyHashAddrID(id) <=> Dir!KnownPubKeyHashAddrID(id)
                              /\ IsScriptHashAddrID(id) <=> Dir!KnownScriptHashAddrID(id)
                        /\ \A prefix \in ProbePrefixes :
                              /\ IsBech32SegwitPrefix(prefix) <=> Dir!KnownSegwitPrefix(prefix)
                              /\ IsBech32MwebPrefix(prefix) <=> Dir!KnownMwebPrefix(prefix)
      BY DEF LookupsMatchDirectory
    <2>1. Rep(registry, accepted) /\ accepted \subseteq RegisterInputs
      BY DEF RepInv
    <2>2. \A id \in ProbeIDs :
             /\ IsPubKeyHashAddrID(id) <=> Dir!KnownPubKeyHashAddrID(id)
             /\ IsScriptHashAddrID(id) <=> Dir!KnownScriptHashAddrID(id)
      <3>1. /\ registry.pubKeyHashAddrIDs = {p.PubKeyHashAddrID : p \in accepted}
            /\ registry.scriptHashAddrIDs = {p.ScriptHashAddrID : p \in accepted}
        BY <2>1 DEF Rep
      <3> QED BY <3>1, Zenon DEF IsPubKeyHashAddrID, IsScriptHashAddrID,
                                 Dir!KnownPubKeyHashAddrID, Dir!KnownScriptHashAddrID
    <2>3. \A p \in accepted :
             /\ ToLower(p.Bech32HRPSegwit \o <<"1">>) = p.Bech32HRPSegwit \o <<"1">>
             /\ ToLower(p.Bech32HRPMweb \o <<"1">>) = p.Bech32HRPMweb \o <<"1">>
      BY <2>1 DEF LowerCaseHRPs
    <2>4. \A prefix \in ProbePrefixes :
             /\ IsBech32SegwitPrefix(prefix) <=> Dir!KnownSegwitPrefix(prefix)
             /\ IsBech32MwebPrefix(prefix) <=> Dir!KnownMwebPrefix(prefix)
      <3>1. /\ registry.bech32SegwitPrefixes = {p.Bech32HRPSegwit \o <<"1">> : p \in accepted}
            /\ registry.bech32MwebPrefixes = {p.Bech32HRPMweb \o <<"1">> : p \in accepted}
        BY <2>1 DEF Rep
      <3> QED BY <2>3, <3>1, Zenon DEF IsBech32SegwitPrefix, IsBech32MwebPrefix,
                     Dir!KnownSegwitPrefix, Dir!KnownMwebPrefix
    <2> QED BY <2>2, <2>4
  <1> QED BY <1>1, RepInvariant, PTL

=============================================================================
