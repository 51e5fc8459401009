----------------------------- MODULE MCProtocol -----------------------------
(***************************************************************************)
(* Instances of the protocol for TLC.  Each configuration chooses its      *)
(* accounts, factories and tokens from the model values declared here.     *)
(***************************************************************************)
EXTENDS ProtocolProperties, TLC

CONSTANTS alice, bob, wallet,  \* accounts; wallet is the one that may have code
          first, second,       \* factories
          link, taxed,         \* fee tokens other than the Fundi token
          NewURI, OtherProtocol

\* Who deployed which factory.
MCCreator == first :> alice @@ second :> wallet
MCWallet == first :> wallet @@ second :> wallet
MCWalletSingle == first :> wallet
MCSingle == first :> alice

\* Where the wallet deployed both factories, nothing tells them apart.  Sound
\* for invariants, and used with nothing else.
MCFactorySymmetry == Permutations({first, second})
=============================================================================
