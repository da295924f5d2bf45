------------------------------ MODULE Registry ------------------------------
(***************************************************************************)
(* The chaincfg network registry (src/unnamed/part_001): the package-level *)
(* maps filled by Register and RegisterHDKeyID, the lookups that address   *)
(* decoding uses, and the package init that registers the four default     *)
(* networks.  Go maps used as sets are modelled as sets, the map from HD   *)
(* private to public key IDs as a function.  A human-readable part (HRP)   *)
(* is a sequence of one-character strings, so that the "+ \"1\"" of        *)
(* Register and the strings.ToLower of the lookups are modelled by what    *)
(* they do.  A byte is a number, a [4]byte or []byte a tuple of numbers.   *)
(***************************************************************************)
EXTENDS Integers, Sequences, TLC

CONSTANTS
  CustomParams,  \* Params values a main package may pass to Register
  HDKeyInputs    \* [pub, priv] slices a caller may pass to RegisterHDKeyID

VARIABLES
  registry,   \* the six package-level maps of part_001:976-983
  initDone,   \* package init has run
  panicked,   \* mustRegister panicked during package init
  lastErr,    \* error returned by the latest exported call
  accepted    \* (history) the Params every successful Register was given

vars == <<registry, initDone, panicked, lastErr, accepted>>

\* HDPrivateKeyID and HDPublicKeyID of Params are [4]byte arrays, so the
\* slices Register passes on always have length 4.
ASSUME ParamsShapeAssumption ==
  \A p \in CustomParams :
     /\ p.HDPublicKeyID \in Seq(Nat) /\ Len(p.HDPublicKeyID) = 4
     /\ p.HDPrivateKeyID \in Seq(Nat) /\ Len(p.HDPrivateKeyID) = 4

-----------------------------------------------------------------------------
(* strings.ToLower on one-character strings: the capitals of the letters *)
(* the modelled HRPs are made of fold to lower case, the rest is kept.    *)
CaseFold == ("B" :> "b") @@ ("C" :> "c") @@ ("D" :> "d") @@ ("E" :> "e") @@
            ("M" :> "m") @@ ("R" :> "r") @@ ("S" :> "s") @@ ("T" :> "t") @@
            ("V" :> "v") @@ ("W" :> "w")
LowerChar(ch) == IF ch \in DOMAIN CaseFold THEN CaseFold[ch] ELSE ch
ToLower(s) == [i \in DOMAIN s |-> LowerChar(s[i])]

(* The fields of Params that the registry reads.                           *)
NetParams(name, net, pkh, sh, segwit, mweb, priv, pub) ==
  [Name |-> name, Net |-> net, PubKeyHashAddrID |-> pkh,
   ScriptHashAddrID |-> sh, Bech32HRPSegwit |-> segwit,
   Bech32HRPMweb |-> mweb, HDPrivateKeyID |-> priv, HDPublicKeyID |-> pub]

Xprv == <<4, 136, 173, 228>>
Xpub == <<4, 136, 178, 30>>
Tprv == <<4, 53, 131, 148>>
Tpub == <<4, 53, 135, 207>>
Sprv == <<4, 32, 185, 0>>
Spub == <<4, 32, 189, 58>>

MainNetParams ==
  NetParams("mainnet", "MainNet", 30, 5, <<"d","s","v">>,
            <<"d","s","v","m","w","e","b">>, Xprv, Xpub)
RegressionNetParams ==
  NetParams("regtest", "TestNet", 111, 196, <<"r","d","s","v">>,
            <<"t","m","w","e","b">>, Tprv, Tpub)
TestNet4Params ==
  NetParams("testnet4", "TestNet4", 111, 196, <<"t","d","s","v">>,
            <<"t","m","w","e","b">>, Tprv, Tpub)
\* SimNet sets no Bech32HRPMweb: the field is the empty string.
SimNetParams ==
  NetParams("simnet", "SimNet", 63, 123, <<"s","d","s","v">>, <<>>,
            Sprv, Spub)
\* CustomSignetParams: the magic is derived from the challenge hash, which
\* is abstracted to a name; the MWEB HRP is left empty.
CustomSignetParams(net) ==
  NetParams("signet", net, 111, 196, <<"t","d","s","v">>, <<>>, Tprv, Tpub)
SigNetParams == CustomSignetParams("SigNet")

EmptyRegistry ==
  [registeredNets |-> {}, pubKeyHashAddrIDs |-> {}, scriptHashAddrIDs |-> {},
   bech32SegwitPrefixes |-> {}, bech32MwebPrefixes |-> {},
   hdPrivToPubKeyIDs |-> <<>>]

-----------------------------------------------------------------------------
(* The Go map assignment m[k] = v.                                        *)
MapPut(m, k, v) == [x \in DOMAIN m \cup {k} |-> IF x = k THEN v ELSE m[x]]

(* RegisterHDKeyID on registry r: the new state and the error.  The map    *)
(* entry is overwritten if the private key ID is already present.          *)
RegisterHDKeyIDOnPubKey(r, pub, priv) ==
  IF Len(pub) # 4 \/ Len(priv) # 4
  THEN [reg |-> r, err |-> "ErrInvalidHDKeyID"]
  ELSE [reg |-> [r EXCEPT !.hdPrivToPubKeyIDs = MapPut(@, pub, pub)],
        err |-> "nil"]
RegisterHDKeyIDOn(r, pub, priv) ==
  IF Len(pub) # 4 \/ Len(priv) # 4
  THEN [reg |-> r, err |-> "ErrInvalidHDKeyID"]
  ELSE [reg |-> [r EXCEPT !.hdPrivToPubKeyIDs = MapPut(@, priv, pub)],
        err |-> "nil"]

(* Register on registry r: the duplicate check, the three writes before   *)
(* the HD registration (kept when it fails), then the two prefix writes.   *)
RegisterOnNoMweb(r, p) ==
  IF p.Net \in r.registeredNets
  THEN [reg |-> r, err |-> "ErrDuplicateNet"]
  ELSE LET r1 == [r EXCEPT !.registeredNets = @ \cup {p.Net},
                           !.pubKeyHashAddrIDs = @ \cup {p.PubKeyHashAddrID},
                           !.scriptHashAddrIDs = @ \cup {p.ScriptHashAddrID}]
           hd == RegisterHDKeyIDOn(r1, p.HDPublicKeyID, p.HDPrivateKeyID)
       IN IF hd.err # "nil" THEN hd
          ELSE [reg |-> [hd.reg EXCEPT
                  !.bech32SegwitPrefixes = @ \cup {p.Bech32HRPSegwit \o <<"1">>}],
                err |-> "nil"]
RegisterOnWritesFirst(r, p) ==
  LET r1 == [r EXCEPT !.registeredNets = @ \cup {p.Net},
                      !.pubKeyHashAddrIDs = @ \cup {p.PubKeyHashAddrID},
                      !.scriptHashAddrIDs = @ \cup {p.ScriptHashAddrID}]
  IN IF p.Net \in r.registeredNets
     THEN [reg |-> r1, err |-> "ErrDuplicateNet"]
     ELSE LET hd == RegisterHDKeyIDOn(r1, p.HDPublicKeyID, p.HDPrivateKeyID)
          IN IF hd.err # "nil" THEN hd
             ELSE [reg |-> [hd.reg EXCEPT
                     !.bech32SegwitPrefixes = @ \cup {p.Bech32HRPSegwit \o <<"1">>},
                     !.bech32MwebPrefixes = @ \cup {p.Bech32HRPMweb \o <<"1">>}],
                   err |-> "nil"]
\* Mutant: no duplicate check, a known Net is registered again.
RegisterOnNoDuplicateCheck(r, p) ==
  LET r1 == [r EXCEPT !.registeredNets = @ \cup {p.Net},
                      !.pubKeyHashAddrIDs = @ \cup {p.PubKeyHashAddrID},
                      !.scriptHashAddrIDs = @ \cup {p.ScriptHashAddrID}]
      hd == RegisterHDKeyIDOn(r1, p.HDPublicKeyID, p.HDPrivateKeyID)
  IN IF hd.err # "nil" THEN hd
     ELSE [reg |-> [hd.reg EXCEPT
             !.bech32SegwitPrefixes = @ \cup {p.Bech32HRPSegwit \o <<"1">>},
             !.bech32MwebPrefixes = @ \cup {p.Bech32HRPMweb \o <<"1">>}],
           err |-> "nil"]
RegisterOn(r, p) ==
  IF p.Net \in r.registeredNets
  THEN [reg |-> r, err |-> "ErrDuplicateNet"]
  ELSE LET r1 == [r EXCEPT !.registeredNets = @ \cup {p.Net},
                           !.pubKeyHashAddrIDs = @ \cup {p.PubKeyHashAddrID},
                           !.scriptHashAddrIDs = @ \cup {p.ScriptHashAddrID}]
           hd == RegisterHDKeyIDOn(r1, p.HDPublicKeyID, p.HDPrivateKeyID)
       IN IF hd.err # "nil" THEN hd
          ELSE [reg |-> [hd.reg EXCEPT
                  !.bech32SegwitPrefixes = @ \cup {p.Bech32HRPSegwit \o <<"1">>},
                  !.bech32MwebPrefixes = @ \cup {p.Bech32HRPMweb \o <<"1">>}],
                err |-> "nil"]

(* The lookups used when decoding addresses and extended keys.            *)
IsPubKeyHashAddrID(id) == id \in registry.pubKeyHashAddrIDs
IsScriptHashAddrID(id) == id \in registry.scriptHashAddrIDs
IsBech32SegwitPrefix(prefix) == ToLower(prefix) \in registry.bech32SegwitPrefixes
IsBech32MwebPrefix(prefix) == ToLower(prefix) \in registry.bech32MwebPrefixes
HDPrivateKeyToPublicKeyID(id) ==
  IF Len(id) # 4 \/ id \notin DOMAIN registry.hdPrivToPubKeyIDs
  THEN [id |-> <<>>, err |-> "ErrUnknownHDKeyID"]
  ELSE [id |-> registry.hdPrivToPubKeyIDs[id], err |-> "nil"]

-----------------------------------------------------------------------------
DefaultNetworks ==
  <<MainNetParams, TestNet4Params, RegressionNetParams, SimNetParams>>

(* mustRegister of p after the calls that produced prev: the first error *)
(* panics, so nothing after it runs.                                       *)
MustRegisterOn(prev, p) ==
  IF prev.err # "nil" THEN prev ELSE RegisterOn(prev.reg, p)

(* The Params a Register call may be given: a main package's own, and the  *)
(* default networks again.                                                 *)
RegisterInputs == CustomParams \cup {DefaultNetworks[i] : i \in 1..4}

Init ==
  /\ registry = EmptyRegistry
  /\ initDone = FALSE
  /\ panicked = FALSE
  /\ lastErr = "nil"
  /\ accepted = {}

(* Package init: mustRegister of each default network, a panic on error.  *)
PackageInit ==
  LET done == MustRegisterOn(MustRegisterOn(MustRegisterOn(MustRegisterOn(
                [reg |-> EmptyRegistry, err |-> "nil"],
                MainNetParams), TestNet4Params), RegressionNetParams),
                SimNetParams) IN
  /\ ~initDone
  /\ initDone' = TRUE
  /\ registry' = done.reg
  /\ panicked' = (done.err # "nil")
  /\ lastErr' = done.err
  /\ accepted' = IF done.err = "nil"
                 THEN {DefaultNetworks[i] : i \in 1..Len(DefaultNetworks)}
                 ELSE {}

(* Register(params), called by a main package after package init.          *)
Register(p) ==
  LET r == RegisterOn(registry, p) IN
  /\ initDone /\ ~panicked
  /\ registry' = r.reg
  /\ lastErr' = r.err
  /\ accepted' = IF r.err = "nil" THEN accepted \cup {p} ELSE accepted
  /\ UNCHANGED <<initDone, panicked>>

(* RegisterHDKeyID(pub, priv), exported and callable on its own.           *)
RegisterHDKeyID(pub, priv) ==
  LET r == RegisterHDKeyIDOn(registry, pub, priv) IN
  /\ initDone /\ ~panicked
  /\ registry' = r.reg
  /\ lastErr' = r.err
  /\ UNCHANGED <<initDone, panicked, accepted>>

Next ==
  \/ PackageInit
  \/ \E p \in RegisterInputs : Register(p)
  \/ \E k \in HDKeyInputs : RegisterHDKeyID(k.pub, k.priv)

Spec == Init /\ [][Next]_vars

-----------------------------------------------------------------------------
(* Properties.                                                             *)

TypeOK ==
  /\ registry.registeredNets \subseteq STRING
  /\ initDone \in BOOLEAN /\ panicked \in BOOLEAN
  /\ lastErr \in {"nil", "ErrDuplicateNet", "ErrInvalidHDKeyID"}

(* The registry as the directory its doc comments describe: the networks  *)
(* are those whose Register returned nil (accepted), the key bindings are  *)
(* the HD map, and the phase follows package init.                         *)
Dir == INSTANCE NetworkDirectory
         WITH DefaultNets <- DefaultNetworks, NetInputs <- RegisterInputs,
              KeyInputs <- HDKeyInputs, Lower <- ToLower,
              networks <- accepted,
              hdKeys <- IF panicked THEN <<>> ELSE registry.hdPrivToPubKeyIDs,
              phase <- IF ~initDone THEN "boot"
                       ELSE IF panicked THEN "halted" ELSE "ready"

(* The registry implements the directory: package init registers the      *)
(* defaults, every Register that returns nil adds a network whose Net was  *)
(* not yet known, every other call changes no network, and the HD map     *)
(* moves only by the bindings of successful calls.                          *)
ImplementsDirectory == Dir!DirSpec

\* The IDs and prefixes the inputs use, on which the lookups are compared.
ProbeIDs ==
  {p.PubKeyHashAddrID : p \in RegisterInputs} \cup {p.ScriptHashAddrID : p \in RegisterInputs}
ProbePrefixes ==
  {p.Bech32HRPSegwit \o <<"1">> : p \in RegisterInputs}
    \cup {p.Bech32HRPMweb \o <<"1">> : p \in RegisterInputs}

(* After package init, each of the four address lookups answers exactly    *)
(* what the directory says: an ID or prefix is recognised if and only if   *)
(* some network whose Register returned nil carries it.  Register writes  *)
(* three maps before the HD registration that may fail, and the duplicate  *)
(* check must come before them, or a rejected network's IDs leak into the  *)
(* lookups; a successful Register must perform all five writes.            *)
LookupsMatchDirectory ==
  initDone /\ ~panicked =>
    /\ \A id \in ProbeIDs :
          /\ IsPubKeyHashAddrID(id) <=> Dir!KnownPubKeyHashAddrID(id)
          /\ IsScriptHashAddrID(id) <=> Dir!KnownScriptHashAddrID(id)
    /\ \A prefix \in ProbePrefixes :
          /\ IsBech32SegwitPrefix(prefix) <=> Dir!KnownSegwitPrefix(prefix)
          /\ IsBech32MwebPrefix(prefix) <=> Dir!KnownMwebPrefix(prefix)

(* The inputs' human-readable parts followed by "1" are in lower case, as *)
(* those of the default networks are.  LookupsMatchDirectory is proved     *)
(* under this condition; MCUpperCaseParams breaks it.                      *)
LowerCaseHRPs ==
  \A p \in RegisterInputs :
    /\ ToLower(p.Bech32HRPSegwit \o <<"1">>) = p.Bech32HRPSegwit \o <<"1">>
    /\ ToLower(p.Bech32HRPMweb \o <<"1">>) = p.Bech32HRPMweb \o <<"1">>

(* The (private, public) key ID pairs of four bytes the inputs carry, the *)
(* ones RegisterHDKeyID would store, and whether no two of them give one   *)
(* private ID two public IDs.  HDKeyLookupOwn is      *)
(* proved under this condition; the hd_rebind run breaks it.               *)
KeyPairs ==
  {<<p.HDPrivateKeyID, p.HDPublicKeyID>> : p \in RegisterInputs}
    \cup {<<k.priv, k.pub>> : k \in {h \in HDKeyInputs : Len(h.pub) = 4 /\ Len(h.priv) = 4}}
ConsistentHDKeys ==
  \A a, b \in KeyPairs : a[1] = b[1] => a[2] = b[2]

(* The private extended key ID of every successfully registered network    *)
(* still resolves, through HDPrivateKeyToPublicKeyID, to that network's     *)
(* own public key ID, whatever was registered after it (the map entry of    *)
(* RegisterHDKeyID is overwritten by a later pair with the same private     *)
(* ID).                                                                     *)
HDKeyLookupOwn ==
  \A p \in accepted :
     HDPrivateKeyToPublicKeyID(p.HDPrivateKeyID)
       = [id |-> p.HDPublicKeyID, err |-> "nil"]

(* A call of Register or RegisterHDKeyID that returns an error leaves the  *)
(* registry as it was: the duplicate check of Register comes before its    *)
(* writes, and the HD error that would follow the first three writes        *)
(* cannot occur for the [4]byte IDs of a Params.                            *)
FailedCallLeavesRegistry ==
  [][initDone /\ lastErr' # "nil" => registry' = registry]_vars

=============================================================================
