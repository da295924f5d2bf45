-------------------------- MODULE NetworkDirectory --------------------------
(***************************************************************************)
(* What the chaincfg registry promises, from its doc comments (part_001,   *)
(* Register, mustRegister and the Is... lookups): a directory of networks. *)
(* Package init puts the default networks in it or panics; Register adds a *)
(* network unless one with the same Net is already there (a default or a   *)
(* previous Register), and RegisterHDKeyID binds a private extended key ID *)
(* to a public one.  A lookup answers whether an ID or prefix is "known on *)
(* any default or registered network".  The directory keeps the networks   *)
(* themselves; how the package stores them (six maps) is not said here.    *)
(***************************************************************************)
EXTENDS Integers, Sequences

CONSTANTS
  DefaultNets,   \* the default networks, in the order init registers them
  NetInputs,     \* the Params a Register call may be given
  KeyInputs,     \* the [pub, priv] pairs a RegisterHDKeyID call may be given
  Lower(_)       \* case folding of a human-readable part

VARIABLES
  networks,      \* the networks registered so far
  hdKeys,        \* private extended key ID -> public extended key ID
  phase          \* "boot" before package init, then "ready" or "halted"

dirVars == <<networks, hdKeys, phase>>

\* hdKeys with the binding priv -> pub, replacing an older one.
Bind(keys, priv, pub) ==
  [k \in DOMAIN keys \cup {priv} |-> IF k = priv THEN pub ELSE keys[k]]

\* The key bindings of the defaults, in init order (a later one wins).
DefaultKeys ==
  LET b1 == Bind(<<>>, DefaultNets[1].HDPrivateKeyID, DefaultNets[1].HDPublicKeyID)
      b2 == Bind(b1, DefaultNets[2].HDPrivateKeyID, DefaultNets[2].HDPublicKeyID)
      b3 == Bind(b2, DefaultNets[3].HDPrivateKeyID, DefaultNets[3].HDPublicKeyID)
  IN  Bind(b3, DefaultNets[4].HDPrivateKeyID, DefaultNets[4].HDPublicKeyID)

DirInit ==
  /\ networks = {}
  /\ hdKeys = <<>>
  /\ phase = "boot"

\* Package init: the defaults are registered, or a registration panics.
Boot ==
  /\ phase = "boot"
  /\ \/ /\ phase' = "ready"
        /\ networks' = {DefaultNets[i] : i \in 1..4}
        /\ hdKeys' = DefaultKeys
     \/ /\ phase' = "halted"
        /\ UNCHANGED <<networks, hdKeys>>

\* A successful Register; a rejected one changes nothing.
AddNetwork(p) ==
  /\ phase = "ready"
  /\ p.Net \notin {q.Net : q \in networks}
  /\ networks' = networks \cup {p}
  /\ hdKeys' = Bind(hdKeys, p.HDPrivateKeyID, p.HDPublicKeyID)
  /\ UNCHANGED phase

\* A successful RegisterHDKeyID: both IDs are four bytes long.
BindKey(pub, priv) ==
  /\ phase = "ready"
  /\ Len(pub) = 4 /\ Len(priv) = 4
  /\ hdKeys' = Bind(hdKeys, priv, pub)
  /\ UNCHANGED <<networks, phase>>

DirNext ==
  \/ Boot
  \/ \E p \in NetInputs : AddNetwork(p)
  \/ \E k \in KeyInputs : BindKey(k.pub, k.priv)

DirSpec == DirInit /\ [][DirNext]_dirVars

\* The lookups: known on any registered network, prefixes case-insensitively.
KnownPubKeyHashAddrID(id) == \E p \in networks : p.PubKeyHashAddrID = id
KnownScriptHashAddrID(id) == \E p \in networks : p.ScriptHashAddrID = id
KnownSegwitPrefix(prefix) ==
  \E p \in networks : Lower(prefix) = Lower(p.Bech32HRPSegwit \o <<"1">>)
KnownMwebPrefix(prefix) ==
  \E p \in networks : Lower(prefix) = Lower(p.Bech32HRPMweb \o <<"1">>)
=============================================================================
