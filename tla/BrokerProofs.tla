---------------------------- MODULE BrokerProofs ----------------------------
(***************************************************************************)
(* Proofs about Broker.Resolve: it returns the first hit of the chain,    *)
(* an environment value always wins, and what it returns comes from a    *)
(* source of the configured chain.                                        *)
(***************************************************************************)
EXTENDS Broker, TLAPS

\* Every value a resolver can hand back, the sidecar's envelope included.
Vals == Values \cup {Envelope(v) : v \in Values}
Outs == [ok : BOOLEAN, val : Vals]

\* What the proofs need of the constants: configurations and stores have
\* their shape, and the markers are not values.
BrokerHyp ==
    /\ Configs \subseteq [sops : BOOLEAN, kdbx : BOOLEAN, setec : BOOLEAN]
    /\ Stores \subseteq [Sources -> [Keys -> Values \cup {Absent}]]
    /\ Absent \notin Values
    /\ Empty \notin Secrets
    /\ None \notin Vals /\ NotFound \notin Vals /\ None # NotFound

IInv ==
    /\ cfg \in Configs /\ store \in Stores /\ key \in Keys
    /\ tried \in Seq(Outs) /\ Len(tried) <= Len(Chain(cfg))
    /\ out \in Vals \cup {None, NotFound}
    /\ out = None => \A i \in 1..Len(tried) : ~Hit(tried[i])
    /\ out \in Vals =>
          /\ Len(tried) >= 1 /\ Hit(tried[Len(tried)])
          /\ out = tried[Len(tried)].val
          /\ \A i \in 1..Len(tried) - 1 : ~Hit(tried[i])
    /\ out = NotFound =>
          /\ Len(tried) = Len(Chain(cfg))
          /\ \A i \in 1..Len(tried) : ~Hit(tried[i])
    /\ store["env"][key] \in Secrets /\ Len(tried) >= 1 =>
          tried[1] = Ok(store["env"][key])
    /\ \A i \in 1..Len(tried) :
          tried[i] \in Outcomes(Chain(cfg)[i], cfg, store, key)

\* EnvResolver is first in every chain (spec 4.2 and the broker tests):
\* once Resolve has returned, a key set in the environment resolved to
\* the environment's value.
EnvPrecedence ==
    store["env"][key] \in Secrets /\ out # None => out = store["env"][key]

-----------------------------------------------------------------------------
\* The index FirstHit picks: the one hit with no hit before it.
LEMMA FirstHitIs ==
    ASSUME NEW os \in Seq(Outs), NEW n \in 1..Len(os), Hit(os[n]),
           \A i \in 1..n - 1 : ~Hit(os[i])
    PROVE  FirstHit(os) = n
BY DEF FirstHit

LEMMA FirstHitNone ==
    ASSUME NEW os \in Seq(Outs), \A i \in 1..Len(os) : ~Hit(os[i])
    PROVE  FirstHit(os) = 0
BY DEF FirstHit

\* What a resolver hands back when the broker takes it: the secret its
\* source holds for the key, or the sidecar's envelope around it.
SourceValue(src, st, k) ==
    IF src = "kdbx" THEN Envelope(st[src][k]) ELSE st[src][k]

\* Resolve hands out only what a source of the configured chain holds for
\* the key (the kdbx envelope of it, broker.go:149-155): no unconfigured
\* resolver is asked, and no error path yields a value.
ResolvedFromChain ==
    out \notin {None, NotFound} =>
        \E i \in 1..Len(Chain(cfg)) : out = SourceValue(Chain(cfg)[i], store, key)

\* A hit of a resolver carries its source's value.
LEMMA HitValue ==
    ASSUME NEW c, NEW st, NEW k, NEW src \in Sources,
           NEW o \in Outcomes(src, c, st, k), Hit(o)
    PROVE  o.val = SourceValue(src, st, k)
<1>1. ~Hit(Err)
  BY DEF Hit, Err
<1>2. CASE src = "env"
  BY <1>1, <1>2 DEF Outcomes, EnvResolve, SourceValue, Ok
<1>3. CASE src = "sops"
  BY <1>1, <1>3 DEF Outcomes, SopsResolve, SourceValue, Ok
<1>4. CASE src = "kdbx"
  BY <1>1, <1>4 DEF Outcomes, KdbxResolve, SourceValue, Ok
<1>5. CASE src = "setec"
  BY <1>1, <1>5 DEF Outcomes, SetecResolve, SourceValue, Ok
<1>. QED
  BY <1>2, <1>3, <1>4, <1>5 DEF Sources

\* NewBrokerWithConfig's chains: env first, then sops, at most four.
LEMMA ChainShape ==
    ASSUME NEW c \in [sops : BOOLEAN, kdbx : BOOLEAN, setec : BOOLEAN]
    PROVE  /\ Chain(c) \in Seq(Sources)
           /\ Len(Chain(c)) \in 2..4
           /\ Chain(c)[1] = "env"
<1>1. CASE c.kdbx /\ c.setec
  <2>. Chain(c) = Append(Append(<<"env", "sops">>, "kdbx"), "setec")
    BY <1>1 DEF Chain, WithKdbx
  <2>. QED BY DEF Sources
<1>2. CASE c.kdbx /\ ~c.setec
  <2>. Chain(c) = Append(<<"env", "sops">>, "kdbx")
    BY <1>2 DEF Chain, WithKdbx
  <2>. QED BY DEF Sources
<1>3. CASE ~c.kdbx /\ c.setec
  <2>. Chain(c) = Append(<<"env", "sops">>, "setec")
    BY <1>3 DEF Chain, WithKdbx
  <2>. QED BY DEF Sources
<1>4. CASE ~c.kdbx /\ ~c.setec
  <2>. Chain(c) = <<"env", "sops">>
    BY <1>4 DEF Chain, WithKdbx
  <2>. QED BY DEF Sources
<1>. QED
  BY <1>1, <1>2, <1>3, <1>4

\* Every resolver's outcome is an error or a value.
LEMMA OutcomesType ==
    ASSUME BrokerHyp, NEW c \in Configs, NEW st \in Stores, NEW k \in Keys,
           NEW src \in Sources
    PROVE  Outcomes(src, c, st, k) \subseteq Outs
<1>1. st[src][k] \in Values \cup {Absent}
  BY DEF BrokerHyp
<1>2. Err \in Outs /\ \A v \in Values : Ok(v) \in Outs /\ Ok(Envelope(v)) \in Outs
  BY DEF Outs, Vals, Ok, Err, Values
<1>3. CASE src = "env"
  BY <1>1, <1>2, <1>3 DEF Outcomes, EnvResolve, Values
<1>4. CASE src = "sops"
  BY <1>1, <1>2, <1>4 DEF Outcomes, SopsResolve
<1>5. CASE src = "kdbx"
  BY <1>1, <1>2, <1>5 DEF Outcomes, KdbxResolve
<1>6. CASE src = "setec"
  BY <1>1, <1>2, <1>6 DEF Outcomes, SetecResolve
<1>. QED
  BY <1>3, <1>4, <1>5, <1>6 DEF Sources

LEMMA InitIInv ==
    ASSUME BrokerHyp PROVE Init => IInv
<1> SUFFICES ASSUME Init PROVE IInv
  OBVIOUS
<1>1. cfg \in [sops : BOOLEAN, kdbx : BOOLEAN, setec : BOOLEAN]
  BY DEF Init, BrokerHyp
<1>2. Len(Chain(cfg)) \in 2..4
  BY <1>1, ChainShape
<1>3. None \notin Vals /\ None # NotFound
  BY DEF BrokerHyp
<1>. QED
  BY <1>2, <1>3 DEF Init, IInv

LEMMA TryIInv ==
    ASSUME BrokerHyp, IInv, Try PROVE IInv'
<1> USE DEF IInv
<1> DEFINE n == Len(tried)
<1>1. /\ Chain(cfg) \in Seq(Sources)
      /\ Len(Chain(cfg)) \in 2..4
      /\ Chain(cfg)[1] = "env"
  <2>1. cfg \in [sops : BOOLEAN, kdbx : BOOLEAN, setec : BOOLEAN]
    BY DEF BrokerHyp
  <2>. QED
    BY <2>1, ChainShape
<1>2. out = None /\ n < Len(Chain(cfg))
  BY DEF Try
<1>3. Chain(cfg)[n + 1] \in Sources
  BY <1>1, <1>2
<1>4. PICK o \in Outcomes(Chain(cfg)[n + 1], cfg, store, key) :
          /\ tried' = Append(tried, o)
          /\ out' = IF Hit(o) THEN o.val ELSE None
  BY DEF Try
<1>5. o \in Outs
  BY <1>3, OutcomesType
<1>6. UNCHANGED <<cfg, store, key>>
  BY DEF Try
<1>7. /\ tried' \in Seq(Outs) /\ Len(tried') = n + 1
      /\ Len(tried') <= Len(Chain(cfg'))
      /\ tried'[n + 1] = o
      /\ \A i \in 1..n : tried'[i] = tried[i]
  BY <1>2, <1>4, <1>5, <1>6
<1>8. \A i \in 1..n : ~Hit(tried[i])
  BY <1>2
<1>9. out' \in Vals \cup {None, NotFound}
  BY <1>4, <1>5 DEF Outs
<1>9a. store["env"][key] \in Secrets /\ Len(tried') >= 1 =>
          tried'[1] = Ok(store["env"][key])
  <2>1. CASE n = 0
    <3>1. Chain(cfg)[n + 1] = "env"
      BY <1>1, <2>1
    <3>2. store["env"][key] \in Secrets => o = Ok(store["env"][key])
      BY <1>4, <3>1 DEF Outcomes, EnvResolve
    <3>. QED
      BY <1>7, <2>1, <3>2, <1>6
  <2>2. CASE n > 0
    BY <1>6, <1>7, <2>2
  <2>. QED
    BY <2>1, <2>2
<1>9b. \A i \in 1..Len(tried') :
          tried'[i] \in Outcomes(Chain(cfg')[i], cfg', store', key')
  BY <1>4, <1>6, <1>7
<1>10. CASE Hit(o)
  <2>1. out' = o.val /\ out' \in Vals
    BY <1>4, <1>5, <1>10 DEF Outs
  <2>2. out' # None /\ out' # NotFound
    BY <2>1 DEF BrokerHyp
  <2>3. out' \in Vals =>
          /\ Len(tried') >= 1 /\ Hit(tried'[Len(tried')])
          /\ out' = tried'[Len(tried')].val
          /\ \A i \in 1..Len(tried') - 1 : ~Hit(tried'[i])
    BY <1>7, <1>8, <1>10, <2>1
  <2>. QED
    BY <1>6, <1>7, <1>9, <1>9a, <1>9b, <2>2, <2>3
<1>11. CASE ~Hit(o)
  <2>1. out' = None
    BY <1>4, <1>11
  <2>2. \A i \in 1..Len(tried') : ~Hit(tried'[i])
    BY <1>7, <1>8, <1>11
  <2>3. None \notin Vals /\ None # NotFound
    BY DEF BrokerHyp
  <2>. QED
    BY <1>6, <1>7, <1>9, <1>9a, <1>9b, <2>1, <2>2, <2>3
<1>. QED
  BY <1>10, <1>11

LEMMA NextIInv ==
    ASSUME BrokerHyp PROVE IInv /\ [Next]_vars => IInv'
<1> SUFFICES ASSUME IInv, [Next]_vars PROVE IInv'
  OBVIOUS
<1>1. CASE Try
  BY <1>1, TryIInv
<1>2. CASE GiveUp
  BY <1>2 DEF GiveUp, IInv, BrokerHyp
<1>3. CASE UNCHANGED vars
  BY <1>3 DEF vars, IInv
<1>. QED
  BY <1>1, <1>2, <1>3 DEF Next

\* Broker.Resolve returns the first hit of its chain, and NotFound only
\* after every resolver of the chain failed.
THEOREM ResolveCorrect ==
    ASSUME BrokerHyp PROVE Spec => []ResolveFirstHit
<1>1. IInv => ResolveFirstHit
  <2> SUFFICES ASSUME IInv PROVE ResolveFirstHit
    OBVIOUS
  <2>1. out \notin {None, NotFound} => FirstHit(tried) = Len(tried)
    BY FirstHitIs DEF IInv
  <2>2. out = NotFound => FirstHit(tried) = 0
    BY FirstHitNone DEF IInv
  <2>3. out \notin {None, NotFound} => Len(tried) # 0 /\ out \in Vals
    BY DEF IInv
  <2>. QED
    BY <2>1, <2>2, <2>3 DEF ResolveFirstHit, IInv
<1>. QED
  BY <1>1, InitIInv, NextIInv, PTL DEF Spec

\* A key set in the environment is resolved to the environment's value,
\* whatever sops, kdbx and setec hold or do.
THEOREM EnvWins ==
    ASSUME BrokerHyp PROVE Spec => []EnvPrecedence
<1>1. IInv => EnvPrecedence
  <2> SUFFICES ASSUME IInv, store["env"][key] \in Secrets, out # None
               PROVE out = store["env"][key]
    BY DEF EnvPrecedence
  <2>0. cfg \in [sops : BOOLEAN, kdbx : BOOLEAN, setec : BOOLEAN]
    BY DEF IInv, BrokerHyp
  <2>1. Len(Chain(cfg)) >= 2
    BY <2>0, ChainShape
  <2>2. Len(tried) >= 1
    BY <2>1 DEF IInv
  <2>3. Hit(tried[1])
    BY <2>2 DEF IInv, Hit, Ok, BrokerHyp
  <2>4. out \in Vals
    BY <2>2, <2>3 DEF IInv
  <2>5. Len(tried) = 1
    <3>1. \A i \in 1..Len(tried) - 1 : ~Hit(tried[i])
      BY <2>4 DEF IInv
    <3>2. Len(tried) \in Nat
      BY DEF IInv
    <3>3. ~(Len(tried) >= 2)
      <4>1. Len(tried) >= 2 => 1 \in 1..Len(tried) - 1
        BY <3>2
      <4>2. Len(tried) >= 2 => ~Hit(tried[1])
        BY <3>1, <4>1, Zenon
      <4>. QED
        BY <4>2, <2>3, Zenon
    <3>4. \A x \in Nat : x >= 1 /\ ~(x >= 2) => x = 1
      OBVIOUS
    <3>. QED
      BY <3>2, <3>3, <3>4, <2>2, Zenon
  <2>6. tried[1] = Ok(store["env"][key])
    BY <2>2 DEF IInv
  <2>7. out = tried[1].val
    BY <2>4, <2>5 DEF IInv
  <2>. QED
    BY <2>6, <2>7 DEF Ok
<1>. QED
  BY <1>1, InitIInv, NextIInv, PTL DEF Spec

\* A credential Resolve hands out is the secret that one resolver of the
\* chain NewBrokerWithConfig built holds for the key, or the sidecar's
\* envelope around it, whatever the sources hold and whichever calls fail.
THEOREM ResolvesFromChain ==
    ASSUME BrokerHyp PROVE Spec => []ResolvedFromChain
<1>1. IInv => ResolvedFromChain
  <2> SUFFICES ASSUME IInv, out \notin {None, NotFound}
               PROVE  \E i \in 1..Len(Chain(cfg)) :
                         out = SourceValue(Chain(cfg)[i], store, key)
    BY DEF ResolvedFromChain
  <2> DEFINE n == Len(tried)
  <2>1. out \in Vals /\ n \in 1..Len(Chain(cfg))
    BY DEF IInv
  <2>2. Hit(tried[n]) /\ out = tried[n].val
    BY <2>1 DEF IInv
  <2>3. Chain(cfg) \in Seq(Sources)
    <3>1. cfg \in [sops : BOOLEAN, kdbx : BOOLEAN, setec : BOOLEAN]
      BY DEF IInv, BrokerHyp
    <3>. QED BY <3>1, ChainShape
  <2>4. Chain(cfg)[n] \in Sources /\ tried[n] \in Outcomes(Chain(cfg)[n], cfg, store, key)
    BY <2>1, <2>3 DEF IInv
  <2>5. out = SourceValue(Chain(cfg)[n], store, key)
    BY <2>2, <2>4, HitValue
  <2>. QED
    BY <2>1, <2>5
<1>. QED
  BY <1>1, InitIInv, NextIInv, PTL DEF Spec

=============================================================================
