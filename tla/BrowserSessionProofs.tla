------------------------ MODULE BrowserSessionProofs ------------------------
(* What holds of BrowserSession for any number of tabs, calls and sign-ins. *)
EXTENDS BrowserSession, TLAPS

-----------------------------------------------------------------------------
(* The inductive invariant *)

\* No token is of a session that was not started, and the one an answer replaces
\* was replaced.
Known ==
    /\ \A t \in Tabs : refresh[t] # None => refresh[t][2] <= current[refresh[t][1]]
    /\ disk.refresh # None => disk.refresh[2] <= current[disk.refresh[1]]
    /\ \A a \in asks : /\ a.token[2] <= current[a.token[1]]
                       /\ a.answer = "rotated" => a.token[2] < current[a.token[1]]
    /\ \A t \in Tabs : \A x \in rotated[t] : x[2] <= current[x[1]]

Successor(token) == <<token[1], token[2] + 1>>

\* The token an answer brings is nowhere else, and no other answer brings it.
Unheard(a) ==
    /\ \A b \in asks : b.answer = "rotated" /\ b.token = a.token => b = a
    /\ \A b \in asks : b.token # Successor(a.token)
    /\ \A t \in Tabs : refresh[t] # Successor(a.token) /\ Successor(a.token) \notin rotated[t]
    /\ disk.refresh # Successor(a.token)
AnswersAreNew == \A a \in asks : a.answer = "rotated" => Unheard(a)

\* A client of a tab has one renewal under way.
SingleFlight ==
    \A a, b \in asks : a.tab # None /\ a.tab = b.tab /\ a.client = b.client => a = b

\* More than one client has used the sign-in, or it was disturbed.
Shared(f) == f \in unsure \/ \E x, y \in askers[f] : x # y

\* The renewal of a sign-in that is not shared.
Alone(a) ==
    /\ a.tab # None /\ <<a.tab, a.client>> \in askers[a.token[1]]
    /\ a.answer # "lost"
    /\ a.answer = "pending" => a.token[2] = current[a.token[1]]
    /\ a.answer = "rotated" => a.token[2] + 1 = current[a.token[1]]
Sole == \A a \in asks : askers[a.token[1]] # {} /\ (Shared(a.token[1]) \/ Alone(a))

\* Its only client has the last token, or will have it from an answer under way.
KeptOf(f) ==
    /\ askers[f] = {} => current[f] <= 1
    /\ \A x \in askers[f] :
        \/ Shared(f)
        \/ refresh[x[1]] = None \/ refresh[x[1]][1] # f
        \/ refresh[x[1]][2] = current[f]
        \/ \E a \in asks : a.token[1] = f /\ a.answer = "rotated"
Kept == \A f \in Families : KeptOf(f)

Protocol == /\ Known /\ AnswersAreNew /\ SingleFlight /\ Sole /\ Kept
            /\ NoSpentToken /\ OneClientIsNoReplay
IInv == TypeOK /\ Protocol

-----------------------------------------------------------------------------
(* Facts *)

LEMMA TokenFacts ==
    ASSUME NEW x \in Tokens
    PROVE  /\ x # None /\ x[1] \in Families /\ x[2] \in 1 .. MaxSessions
           /\ x = <<x[1], x[2]>>
  BY BrowserSessionAssumption DEF Tokens, Families

LEMMA AskFacts ==
    ASSUME TypeOK, NEW a \in asks
    PROVE  /\ a.tab \in Tabs \cup {None} /\ a.client \in Clients
           /\ a.token \in Tokens /\ a.answer \in Answers /\ a.raced \in BOOLEAN
           /\ a.token[1] \in Families /\ a.token[2] \in 1 .. MaxSessions
           /\ a.token = <<a.token[1], a.token[2]>> /\ a.token # None
           /\ current[a.token[1]] \in 0 .. MaxSessions
  <1>1. a \in Asks
    BY DEF TypeOK
  <1>2. /\ a.tab \in Tabs \cup {None} /\ a.client \in Clients
        /\ a.token \in Tokens /\ a.answer \in Answers /\ a.raced \in BOOLEAN
    BY <1>1 DEF Asks
  <1>3. /\ a.token[1] \in Families /\ a.token[2] \in 1 .. MaxSessions
        /\ a.token = <<a.token[1], a.token[2]>> /\ a.token # None
    BY <1>2, TokenFacts
  <1> QED BY <1>2, <1>3 DEF TypeOK

LEMMA HeldFacts ==
    ASSUME TypeOK, NEW x \in Stored, x # None
    PROVE  /\ x \in Tokens /\ x[1] \in Families /\ x[2] \in 1 .. MaxSessions
           /\ x = <<x[1], x[2]>> /\ current[x[1]] \in 0 .. MaxSessions
  <1>1. x \in Tokens
    BY DEF Stored
  <1> QED BY <1>1, TokenFacts DEF TypeOK

\* Once shared, a sign-in stays so.
LEMMA SharedStays ==
    ASSUME NEW f, Shared(f), unsure \subseteq unsure', askers[f] \subseteq askers'[f]
    PROVE  Shared(f)'
  BY DEF Shared

-----------------------------------------------------------------------------
(* Steps that take no token to a new place *)

\* Calls to /auth/refresh end, unless their answer is waited for; the tabs keep
\* their tokens or lose them.
Shrinks ==
    /\ \A t \in Tabs : refresh'[t] \in {refresh[t], None}
    /\ disk'.refresh \in {disk.refresh, None} \cup {refresh[t] : t \in Tabs}
    /\ asks' \subseteq asks
    /\ \A a \in asks \ asks' : a.answer = "rotated" => a.tab = None
    /\ UNCHANGED <<current, dead, rotated, askers, unsure>>

LEMMA ShrinkKeeps ==
    ASSUME IInv, Shrinks
    PROVE  Protocol'
<1> USE DEF IInv, Protocol, Shrinks
<1>1. Known'
  BY DEF Known
<1>2. AnswersAreNew'
  <2> SUFFICES ASSUME NEW a \in asks', a.answer = "rotated" PROVE Unheard(a)'
    BY DEF AnswersAreNew
  <2>1. Unheard(a)
    BY DEF AnswersAreNew
  <2>2. a.token[1] \in Families /\ a.token[2] + 1 \in 1 .. MaxSessions
    BY AskFacts, BrowserSessionAssumption DEF Known
  <2>3. Successor(a.token) # None
    BY BrowserSessionAssumption, <2>2 DEF Successor, Families
  <2> QED BY <2>1, <2>3 DEF Unheard
<1>3. SingleFlight'
  BY DEF SingleFlight
<1>4. Sole'
  BY DEF Sole, Alone, Shared
<1>5. Kept'
  <2> SUFFICES ASSUME NEW f \in Families PROVE KeptOf(f)'
    BY DEF Kept
  <2>1. KeptOf(f)
    BY DEF Kept
  <2>2. \A x \in askers[f] : x[1] \in Tabs
    BY DEF TypeOK
  <2>3. \A a \in asks : a \in asks' \/ a.answer # "rotated" \/ Shared(a.token[1])
    BY DEF Sole, Alone
  <2> QED BY <2>1, <2>2, <2>3 DEF KeptOf, Shared
<1>6. NoSpentToken' /\ OneClientIsNoReplay'
  <2>1. \A t \in Tabs : None \notin rotated[t]
    BY TokenFacts DEF TypeOK
  <2> QED BY <2>1 DEF NoSpentToken, OneClientIsNoReplay
<1> QED BY <1>1, <1>2, <1>3, <1>4, <1>5, <1>6

-----------------------------------------------------------------------------
(* A call to /auth/refresh is sent *)

Asked(t, c) ==
    /\ InFlight(t, c) = {} /\ refresh[t] # None
    /\ asks' = asks \cup {Ask(t, c)}
    /\ askers' = [askers EXCEPT ![refresh[t][1]] = @ \cup {<<t, c>>}]
    /\ UNCHANGED <<refresh, disk, current, dead, rotated, unsure>>

LEMMA AskedKeeps ==
    ASSUME IInv, NEW t \in Tabs, NEW c \in Clients, Asked(t, c)
    PROVE  Protocol'
<1> USE DEF IInv, Protocol
<1>1. PICK x : x = refresh[t]
  OBVIOUS
<1>2. PICK n : n = Ask(t, c)
  OBVIOUS
<1>3. /\ n.tab = t /\ n.client = c /\ n.token = x /\ n.answer = "pending"
      /\ asks' = asks \cup {n}
  BY <1>1, <1>2 DEF Ask, Asked
<1>4. x \in Tokens /\ x[1] \in Families /\ x[2] \in 1 .. MaxSessions /\ x[2] <= current[x[1]]
      /\ current[x[1]] \in 0 .. MaxSessions /\ x # None
  BY <1>1, HeldFacts DEF Asked, TypeOK, Known
<1>5. /\ \A f \in Families : askers[f] \subseteq askers'[f]
      /\ \A f \in Families : f # x[1] => askers'[f] = askers[f]
      /\ askers'[x[1]] = askers[x[1]] \cup {<<t, c>>}
      /\ askers' \in [Families -> SUBSET (Tabs \X Clients)]
  BY <1>1, <1>4 DEF Asked, TypeOK
<1>6. UNCHANGED <<refresh, disk, current, dead, rotated, unsure>>
  BY DEF Asked
<1>7. \A f \in Families : Shared(f) => Shared(f)'
  BY <1>5, <1>6, SharedStays
<1>8. Known'
  BY <1>3, <1>4, <1>6 DEF Known
<1>9. AnswersAreNew'
  <2> SUFFICES ASSUME NEW a \in asks', a.answer = "rotated" PROVE Unheard(a)'
    BY DEF AnswersAreNew
  <2>1. a \in asks /\ Unheard(a)
    BY <1>3 DEF AnswersAreNew
  <2>2. x # Successor(a.token)
    BY <1>1, <2>1 DEF Unheard
  <2> QED BY <1>3, <1>6, <2>1, <2>2 DEF Unheard
<1>10. SingleFlight'
  <2>1. \A a \in asks : ~(a.tab = t /\ a.client = c)
    BY DEF Asked, InFlight
  <2> QED BY <1>3, <2>1 DEF SingleFlight
<1>11. Shared(x[1])' \/ x[2] = current[x[1]]
  <2>1. CASE askers[x[1]] = {}
    BY <1>4, <2>1 DEF Kept, KeptOf
  <2>2. CASE \E y \in askers[x[1]] : y # <<t, c>>
    BY <1>5, <2>2 DEF Shared
  <2>3. CASE <<t, c>> \in askers[x[1]] /\ ~Shared(x[1])
    <3>1. x[2] = current[x[1]] \/ \E a \in asks : a.token[1] = x[1] /\ a.answer = "rotated"
      BY <1>1, <1>4, <2>3 DEF Kept, KeptOf
    <3>2. ASSUME NEW a \in asks, a.token[1] = x[1] PROVE FALSE
      <4>1. a.tab # None /\ <<a.tab, a.client>> \in askers[x[1]]
        BY <2>3, <3>2 DEF Sole, Alone
      <4>2. <<a.tab, a.client>> = <<t, c>>
        BY <2>3, <4>1 DEF Shared
      <4> QED BY <4>2 DEF Asked, InFlight
    <3> QED BY <3>1, <3>2
  <2> QED BY <1>4, <1>7, <2>1, <2>2, <2>3
<1>12. Sole'
  <2> SUFFICES ASSUME NEW a \in asks' PROVE (askers[a.token[1]] # {} /\ (Shared(a.token[1]) \/ Alone(a)))'
    BY DEF Sole
  <2>1. CASE a \in asks
    <3>1. a.token[1] \in Families
      BY <2>1, AskFacts
    <3> QED BY <1>5, <1>6, <1>7, <2>1, <3>1 DEF Sole, Alone
  <2>2. CASE a = n
    <3>1. <<t, c>> \in askers'[x[1]] /\ t # None
      BY <1>5, <1>4, BrowserSessionAssumption
    <3> QED BY <1>3, <1>6, <1>11, <2>2, <3>1 DEF Alone
  <2> QED BY <1>3, <2>1, <2>2
<1>13. Kept'
  <2> SUFFICES ASSUME NEW f \in Families PROVE KeptOf(f)'
    BY DEF Kept
  <2>1. KeptOf(f)
    BY DEF Kept
  <2>2. CASE f # x[1]
    <3>1. askers'[f] = askers[f]
      BY <1>5, <2>2
    <3> QED BY <1>3, <1>6, <1>7, <2>1, <3>1 DEF KeptOf
  <2>3. CASE f = x[1]
    <3>1. ASSUME NEW y \in askers'[f], ~Shared(f)'
          PROVE  refresh[y[1]][2] = current[f]
      <4>1. y = <<t, c>>
        BY <1>5, <2>3, <3>1 DEF Shared
      <4> QED BY <1>1, <1>11, <2>3, <3>1, <4>1
    <3>2. askers'[f] # {}
      BY <1>5, <2>3
    <3> QED BY <1>6, <3>1, <3>2 DEF KeptOf
  <2> QED BY <2>2, <2>3
<1>14. NoSpentToken'
  BY <1>6 DEF NoSpentToken
<1>15. OneClientIsNoReplay'
  BY <1>5, <1>6 DEF OneClientIsNoReplay, TypeOK
<1> QED BY <1>8, <1>9, <1>10, <1>12, <1>13, <1>14, <1>15

-----------------------------------------------------------------------------
(* A call is refused, or its answer is lost *)

LEMMA AnswerFacts ==
    ASSUME TypeOK, NEW a \in asks, NEW answer \in Answers, NEW b, b = [a EXCEPT !.answer = answer]
    PROVE  /\ b \in Asks /\ b.tab = a.tab /\ b.client = a.client /\ b.token = a.token
           /\ b.answer = answer /\ b.raced = a.raced
  <1>1. a \in Asks
    BY DEF TypeOK
  <1> QED BY <1>1 DEF Asks

Failed(a, b) ==
    /\ b \in Asks /\ b.tab = a.tab /\ b.client = a.client /\ b.token = a.token
    /\ asks' = (asks \ {a}) \cup {b}
    /\ UNCHANGED <<refresh, disk, current, rotated, askers>>
    /\ \/ /\ a.answer = "pending" /\ b.answer = "refused" /\ unsure' = unsure
          /\ dead' = dead \/ (Replaced(a) /\ dead' = dead \cup {a.token[1]})
       \/ b.answer = "lost" /\ unsure' = unsure \cup {a.token[1]} /\ dead' = dead

LEMMA FailedKeeps ==
    ASSUME IInv, NEW a \in asks, NEW b, Failed(a, b)
    PROVE  Protocol'
<1> USE DEF IInv, Protocol
<1>1. /\ b.tab = a.tab /\ b.client = a.client /\ b.token = a.token
      /\ b.answer \in {"refused", "lost"}
      /\ asks' = (asks \ {a}) \cup {b}
      /\ UNCHANGED <<refresh, disk, current, rotated, askers>>
      /\ unsure \subseteq unsure'
      /\ b.answer = "lost" => a.token[1] \in unsure'
      /\ a.answer = "rotated" => a.token[1] \in unsure'
  BY DEF Failed
<1>2. \A f \in Families : Shared(f) => Shared(f)'
  BY <1>1, SharedStays
<1>3. Known'
  BY <1>1 DEF Known
<1>4. AnswersAreNew'
  <2> SUFFICES ASSUME NEW d \in asks', d.answer = "rotated" PROVE Unheard(d)'
    BY DEF AnswersAreNew
  <2>1. d \in asks /\ Unheard(d)
    BY <1>1 DEF AnswersAreNew
  <2> QED BY <1>1, <2>1 DEF Unheard
<1>5. SingleFlight'
  BY <1>1 DEF SingleFlight
<1>6. Sole'
  <2> SUFFICES ASSUME NEW d \in asks' PROVE (askers[d.token[1]] # {} /\ (Shared(d.token[1]) \/ Alone(d)))'
    BY DEF Sole
  <2>1. CASE d \in asks
    <3>1. d.token[1] \in Families
      BY <2>1, AskFacts
    <3> QED BY <1>1, <1>2, <2>1, <3>1 DEF Sole, Alone
  <2>2. CASE d = b
    <3>1. a.token[1] \in Families
      BY AskFacts
    <3>2. CASE Shared(a.token[1])
      BY <1>1, <1>2, <2>2, <3>1, <3>2 DEF Sole
    <3>3. CASE b.answer = "lost"
      BY <1>1, <2>2, <3>3 DEF Sole, Shared
    <3>4. CASE Alone(a) /\ b.answer = "refused"
      BY <1>1, <2>2, <3>4 DEF Sole, Alone
    <3> QED BY <1>1, <3>2, <3>3, <3>4 DEF Sole
  <2> QED BY <1>1, <2>1, <2>2
<1>7. Kept'
  <2> SUFFICES ASSUME NEW f \in Families PROVE KeptOf(f)'
    BY DEF Kept
  <2>1. KeptOf(f)
    BY DEF Kept
  <2>2. \A d \in asks : d.answer = "rotated" => d \in asks' \/ Shared(d.token[1])'
    BY <1>1 DEF Shared
  <2> QED BY <1>1, <1>2, <2>1, <2>2 DEF KeptOf
<1>8. NoSpentToken'
  BY <1>1 DEF NoSpentToken
<1>9. OneClientIsNoReplay'
  <2>1. \A f \in dead : Shared(f)
    BY DEF OneClientIsNoReplay, Shared
  <2>2. CASE dead' = dead
    BY <1>1, <2>1, <2>2 DEF OneClientIsNoReplay, Shared
  <2>3. CASE Replaced(a) /\ a.answer = "pending" /\ dead' = dead \cup {a.token[1]}
    <3>1. Shared(a.token[1])
      BY <2>1, <2>3 DEF Replaced, Sole, Alone
    <3> QED BY <1>1, <2>1, <2>3, <3>1 DEF OneClientIsNoReplay, Shared
  <2> QED BY <2>2, <2>3 DEF Failed
<1> QED BY <1>3, <1>4, <1>5, <1>6, <1>7, <1>8, <1>9

-----------------------------------------------------------------------------
(* A sign-in *)

SignedIn(t, f) ==
    /\ current[f] = 0
    /\ current' = [current EXCEPT ![f] = 1]
    /\ refresh' = [refresh EXCEPT ![t] = <<f, 1>>]
    /\ disk'.refresh = <<f, 1>>
    /\ UNCHANGED <<asks, dead, rotated, askers, unsure>>

LEMMA SignedInKeeps ==
    ASSUME IInv, NEW t \in Tabs, NEW f \in Families, SignedIn(t, f)
    PROVE  Protocol'
<1> USE DEF IInv, Protocol
<1>1. PICK x : x = <<f, 1>>
  OBVIOUS
<1>2. x \in Tokens /\ x # None /\ x[1] = f /\ x[2] = 1
  BY <1>1, BrowserSessionAssumption DEF Tokens, Families
<1>3. /\ refresh'[t] = x /\ \A s \in Tabs : s # t => refresh'[s] = refresh[s]
      /\ disk'.refresh = x
      /\ current'[f] = 1 /\ \A g \in Families : g # f => current'[g] = current[g]
      /\ current[f] = 0
      /\ UNCHANGED <<asks, dead, rotated, askers, unsure>>
  BY <1>1 DEF SignedIn, TypeOK
<1>4. /\ \A a \in asks : a.token[1] # f
      /\ \A s \in Tabs : refresh[s] # None => refresh[s][1] # f
      /\ \A s \in Tabs : \A y \in rotated[s] : y[1] # f
  <2>1. \A y \in Tokens : y[2] <= current[y[1]] => y[1] # f
    BY <1>3, TokenFacts
  <2>2. \A a \in asks : a.token \in Tokens
    BY AskFacts
  <2>3. \A s \in Tabs : refresh[s] # None => refresh[s] \in Tokens
    BY DEF TypeOK, Stored
  <2>4. \A s \in Tabs : rotated[s] \subseteq Tokens
    BY DEF TypeOK
  <2> QED BY <2>1, <2>2, <2>3, <2>4 DEF Known
<1>5. Known'
  <2>1. \A a \in asks : a.token[1] \in Families
    BY AskFacts
  <2>2. \A s \in Tabs : \A y \in rotated[s] : y[1] \in Families
    BY TokenFacts DEF TypeOK
  <2>3. \A s \in Tabs : refresh[s] # None => refresh[s][1] \in Families
    BY HeldFacts DEF TypeOK
  <2>4. \A s \in Tabs : refresh'[s] # None => refresh'[s][2] <= current'[refresh'[s][1]]
    BY <1>2, <1>3, <1>4, <2>3 DEF Known
  <2>5. \A a \in asks' : /\ a.token[2] <= current'[a.token[1]]
                         /\ a.answer = "rotated" => a.token[2] < current'[a.token[1]]
    BY <1>3, <1>4, <2>1 DEF Known
  <2>6. \A s \in Tabs : \A y \in rotated'[s] : y[2] <= current'[y[1]]
    BY <1>3, <1>4, <2>2 DEF Known
  <2>7. disk'.refresh[2] <= current'[disk'.refresh[1]]
    BY <1>2, <1>3
  <2> QED BY <2>4, <2>5, <2>6, <2>7 DEF Known
<1>6. AnswersAreNew'
  <2> SUFFICES ASSUME NEW a \in asks', a.answer = "rotated" PROVE Unheard(a)'
    BY DEF AnswersAreNew
  <2>1. Unheard(a) /\ a.token[1] # f
    BY <1>3, <1>4 DEF AnswersAreNew
  <2>2. Successor(a.token) # x
    BY <1>2, <2>1 DEF Successor
  <2> QED BY <1>3, <2>1, <2>2 DEF Unheard
<1>7. SingleFlight'
  BY <1>3 DEF SingleFlight
<1>8. Sole'
  <2> SUFFICES ASSUME NEW a \in asks' PROVE (askers[a.token[1]] # {} /\ (Shared(a.token[1]) \/ Alone(a)))'
    BY DEF Sole
  <2>1. a \in asks /\ current'[a.token[1]] = current[a.token[1]]
    BY <1>3, <1>4, AskFacts
  <2> QED BY <1>3, <2>1 DEF Sole, Alone, Shared
<1>9. Kept'
  <2> SUFFICES ASSUME NEW g \in Families PROVE KeptOf(g)'
    BY DEF Kept
  <2>1. KeptOf(g) /\ \A y \in askers[g] : y[1] \in Tabs
    BY DEF Kept, TypeOK
  <2>2. CASE g = f
    BY <1>2, <1>3, <1>4, <2>1, <2>2 DEF KeptOf
  <2>3. CASE g # f
    BY <1>2, <1>3, <2>1, <2>3 DEF KeptOf, Shared
  <2> QED BY <2>2, <2>3
<1>10. NoSpentToken'
  BY <1>2, <1>3, <1>4 DEF NoSpentToken
<1>11. OneClientIsNoReplay'
  BY <1>3 DEF OneClientIsNoReplay
<1> QED BY <1>5, <1>6, <1>7, <1>8, <1>9, <1>10, <1>11

-----------------------------------------------------------------------------
(* An answer brings the next token *)

Brought(a) ==
    /\ a.tab # None /\ a.answer = "rotated"
    /\ refresh' = [refresh EXCEPT ![a.tab] = Successor(a.token)]
    /\ disk'.refresh = Successor(a.token)
    /\ asks' = asks \ {a}
    /\ rotated' = [rotated EXCEPT ![a.tab] = @ \cup {a.token}]
    /\ UNCHANGED <<current, dead, askers, unsure>>

LEMMA BroughtKeeps ==
    ASSUME IInv, NEW a \in asks, Brought(a)
    PROVE  Protocol'
<1> USE DEF IInv, Protocol
<1>1. PICK x : x = Successor(a.token)
  OBVIOUS
<1>2. PICK f : f = a.token[1]
  OBVIOUS
<1>3. PICK t : t = a.tab
  OBVIOUS
<1>4. /\ t \in Tabs /\ f \in Families /\ a.answer = "rotated" /\ a.client \in Clients
      /\ a.token[2] \in 1 .. MaxSessions /\ a.token[2] < current[f]
      /\ current[f] \in 0 .. MaxSessions
  BY <1>2, <1>3, AskFacts DEF Brought, Known
<1>5. x \in Tokens /\ x # None /\ x[1] = f /\ x[2] = a.token[2] + 1 /\ x # a.token
  BY <1>1, <1>2, <1>4, BrowserSessionAssumption DEF Successor, Tokens, Families
<1>6. /\ refresh'[t] = x /\ \A s \in Tabs : s # t => refresh'[s] = refresh[s]
      /\ disk'.refresh = x
      /\ asks' = asks \ {a}
      /\ rotated'[t] = rotated[t] \cup {a.token}
      /\ \A s \in Tabs : s # t => rotated'[s] = rotated[s]
      /\ UNCHANGED <<current, dead, askers, unsure>>
  BY <1>1, <1>3, <1>4 DEF Brought, TypeOK
<1>7. Unheard(a)
  BY <1>4 DEF AnswersAreNew
<1>8. Known'
  BY <1>2, <1>4, <1>5, <1>6 DEF Known
<1>9. AnswersAreNew'
  <2> SUFFICES ASSUME NEW b \in asks', b.answer = "rotated" PROVE Unheard(b)'
    BY DEF AnswersAreNew
  <2>1. b \in asks /\ b # a /\ Unheard(b)
    BY <1>6 DEF AnswersAreNew
  <2>2. b.token # a.token
    BY <1>4, <2>1 DEF Unheard
  <2>3. Successor(b.token) # x
    <3>1. a.token = <<a.token[1], a.token[2]>> /\ b.token = <<b.token[1], b.token[2]>>
          /\ a.token[2] \in 1 .. MaxSessions /\ b.token[2] \in 1 .. MaxSessions
      BY <2>1, AskFacts
    <3> QED BY <1>1, <2>2, <3>1, BrowserSessionAssumption DEF Successor
  <2>4. Successor(b.token) # a.token
    BY <2>1 DEF Unheard
  <2> QED BY <1>6, <2>1, <2>3, <2>4 DEF Unheard
<1>10. SingleFlight'
  BY <1>6 DEF SingleFlight
<1>11. Sole'
  BY <1>6 DEF Sole, Alone, Shared
<1>12. Kept'
  <2> SUFFICES ASSUME NEW g \in Families PROVE KeptOf(g)'
    BY DEF Kept
  <2>1. KeptOf(g) /\ \A y \in askers[g] : y[1] \in Tabs
    BY DEF Kept, TypeOK
  <2>2. CASE g # f
    BY <1>2, <1>5, <1>6, <2>1, <2>2 DEF KeptOf, Shared
  <2>3. CASE g = f
    <3>1. ASSUME NEW y \in askers[f], ~Shared(f) PROVE refresh'[y[1]][2] = current[f]
      <4>1. Alone(a)
        BY <1>2, <3>1 DEF Sole
      <4>2. y = <<t, a.client>> /\ x[2] = current[f]
        BY <1>2, <1>3, <1>4, <1>5, <3>1, <4>1 DEF Alone, Shared
      <4> QED BY <1>6, <4>2
    <3> QED BY <1>6, <2>1, <2>3, <3>1 DEF KeptOf, Shared
  <2> QED BY <2>2, <2>3
<1>13. NoSpentToken'
  BY <1>1, <1>5, <1>6, <1>7 DEF NoSpentToken, Unheard
<1>14. OneClientIsNoReplay'
  BY <1>6 DEF OneClientIsNoReplay
<1> QED BY <1>8, <1>9, <1>10, <1>11, <1>12, <1>13, <1>14

-----------------------------------------------------------------------------
(* A page is loaded anew *)

Gone(a, t) == IF a.tab = t THEN [a EXCEPT !.tab = None] ELSE a

LEMMA GoneFacts ==
    ASSUME TypeOK, NEW a \in asks, NEW t \in Tabs
    PROVE  /\ Gone(a, t) \in Asks
           /\ Gone(a, t).tab = IF a.tab = t THEN None ELSE a.tab
           /\ Gone(a, t).client = a.client /\ Gone(a, t).token = a.token
           /\ Gone(a, t).answer = a.answer
  <1>1. a \in Asks
    BY DEF TypeOK
  <1> QED BY <1>1 DEF Asks, Gone

LEMMA ReloadKeeps ==
    ASSUME IInv, NEW t \in Tabs, Reload(t)
    PROVE  Protocol'
<1> USE DEF IInv, Protocol
<1>1. PICK x : x = IF disk.access = None THEN None ELSE disk.refresh
  OBVIOUS
<1>2. /\ refresh'[t] = x /\ \A s \in Tabs : s # t => refresh'[s] = refresh[s]
      /\ rotated'[t] = {} /\ \A s \in Tabs : s # t => rotated'[s] = rotated[s]
      /\ UNCHANGED <<disk, current, dead, askers>>
  BY <1>1 DEF Reload, server, TypeOK
<1>3. /\ asks' = {Gone(a, t) : a \in asks}
      /\ unsure' = unsure \cup {a.token[1] : a \in {y \in asks : y.tab = t}} \cup Outdated(disk.refresh)
  BY DEF Reload, Gone
<1>4. unsure \subseteq unsure'
  BY <1>3
<1>5. \A f \in Families : Shared(f) => Shared(f)'
  BY <1>2, <1>4, SharedStays
<1>6. \A a \in asks : a.tab = t => Shared(a.token[1])'
  BY <1>3 DEF Shared
<1>7. x = None \/ (x = disk.refresh /\ (x[2] = current[x[1]] \/ Shared(x[1])'))
  <2>1. x = None \/ x = disk.refresh
    BY <1>1
  <2>2. ASSUME x # None, x = disk.refresh, x[2] # current[x[1]] PROVE x[1] \in unsure'
    <3>1. Outdated(disk.refresh) = {x[1]}
      BY <2>2 DEF Outdated
    <3> QED BY <1>3, <3>1
  <2> QED BY <2>1, <2>2 DEF Shared
<1>8. Known'
  <2>1. \A s \in Tabs : refresh'[s] # None => refresh'[s][2] <= current'[refresh'[s][1]]
    BY <1>1, <1>2 DEF Known
  <2>2. \A a \in asks' : /\ a.token[2] <= current'[a.token[1]]
                         /\ a.answer = "rotated" => a.token[2] < current'[a.token[1]]
    BY <1>2, <1>3, GoneFacts DEF Known
  <2> QED BY <1>2, <2>1, <2>2 DEF Known
<1>9. AnswersAreNew'
  <2> SUFFICES ASSUME NEW a \in asks, Gone(a, t).answer = "rotated" PROVE Unheard(Gone(a, t))'
    BY <1>3 DEF AnswersAreNew
  <2>1. Unheard(a) /\ Gone(a, t).token = a.token /\ a.answer = "rotated"
    BY GoneFacts DEF AnswersAreNew
  <2>2. a.token[1] \in Families /\ a.token[2] + 1 \in 1 .. MaxSessions
    BY <2>1, AskFacts, BrowserSessionAssumption DEF Known
  <2>3. Successor(a.token) # None
    BY BrowserSessionAssumption, <2>2 DEF Successor, Families
  <2>4. \A b \in asks' : b.answer = "rotated" /\ b.token = a.token => b = Gone(a, t)
    BY <1>3, <2>1, GoneFacts DEF Unheard
  <2>5. \A b \in asks' : b.token # Successor(a.token)
    BY <1>3, <2>1, GoneFacts DEF Unheard
  <2>6. \A s \in Tabs : refresh'[s] # Successor(a.token) /\ Successor(a.token) \notin rotated'[s]
    BY <1>1, <1>2, <2>1, <2>3 DEF Unheard
  <2>7. PICK b : b = Gone(a, t)
    OBVIOUS
  <2>8. Unheard(b)'
    BY <1>2, <2>1, <2>4, <2>5, <2>6, <2>7 DEF Unheard
  <2> QED BY <2>7, <2>8
<1>10. SingleFlight'
  <2> SUFFICES ASSUME NEW a \in asks, NEW b \in asks, Gone(a, t).tab # None,
                      Gone(a, t).tab = Gone(b, t).tab, Gone(a, t).client = Gone(b, t).client
               PROVE  Gone(a, t) = Gone(b, t)
    BY <1>3 DEF SingleFlight
  <2>1. a.tab # None /\ a.tab = b.tab /\ a.client = b.client
    BY GoneFacts
  <2> QED BY <2>1 DEF SingleFlight
<1>11. Sole'
  <2> SUFFICES ASSUME NEW d \in asks' PROVE (askers[d.token[1]] # {} /\ (Shared(d.token[1]) \/ Alone(d)))'
    BY DEF Sole
  <2>1. PICK a \in asks : d = Gone(a, t)
    BY <1>3
  <2>2. d.token = a.token /\ a.token[1] \in Families
    BY <2>1, GoneFacts, AskFacts
  <2>3. askers[a.token[1]] # {} /\ (Shared(a.token[1]) \/ Alone(a))
    BY DEF Sole
  <2>4. CASE a.tab = t
    BY <1>2, <1>6, <2>2, <2>3, <2>4
  <2>5. CASE a.tab # t
    <3>1. d = a
      BY <2>1, <2>5 DEF Gone
    <3> QED BY <1>2, <1>5, <2>2, <2>3, <3>1 DEF Alone
  <2> QED BY <2>4, <2>5
<1>12. Kept'
  <2> SUFFICES ASSUME NEW f \in Families PROVE KeptOf(f)'
    BY DEF Kept
  <2>1. KeptOf(f) /\ \A y \in askers[f] : y[1] \in Tabs
    BY DEF Kept, TypeOK
  <2>2. \A a \in asks : a.answer = "rotated" => Gone(a, t) \in asks'
                        /\ Gone(a, t).answer = "rotated" /\ Gone(a, t).token = a.token
    BY <1>3, GoneFacts
  <2>3. ASSUME NEW y \in askers[f], ~Shared(f)'
        PROVE  \/ refresh'[y[1]] = None \/ refresh'[y[1]][1] # f
               \/ refresh'[y[1]][2] = current[f]
               \/ \E a \in asks' : a.token[1] = f /\ a.answer = "rotated"
    <3>1. CASE y[1] = t
      BY <1>2, <1>7, <2>3, <3>1
    <3>2. CASE y[1] # t
      BY <1>2, <1>5, <2>1, <2>2, <2>3, <3>2 DEF KeptOf
    <3> QED BY <3>1, <3>2
  <2> QED BY <1>2, <2>1, <2>3 DEF KeptOf
<1>13. NoSpentToken'
  BY <1>2 DEF NoSpentToken
<1>14. OneClientIsNoReplay'
  BY <1>2, <1>4 DEF OneClientIsNoReplay
<1> QED BY <1>8, <1>9, <1>10, <1>11, <1>12, <1>13, <1>14

-----------------------------------------------------------------------------
(* The server rotates *)

Met(b, token) == IF b.token = token THEN [b EXCEPT !.raced = TRUE] ELSE b

LEMMA MetFacts ==
    ASSUME TypeOK, NEW b \in asks, NEW token
    PROVE  /\ Met(b, token) \in Asks
           /\ Met(b, token).tab = b.tab /\ Met(b, token).client = b.client
           /\ Met(b, token).token = b.token /\ Met(b, token).answer = b.answer
  <1>1. b \in Asks
    BY DEF TypeOK
  <1> QED BY <1>1 DEF Asks, Met

Rotated(a, d) ==
    /\ a.answer = "pending" /\ a.token[2] = current[a.token[1]] /\ a.token[2] < MaxSessions
    /\ d \in Asks /\ d.tab = a.tab /\ d.client = a.client /\ d.token = a.token
    /\ d.answer = "rotated"
    /\ current' = [current EXCEPT ![a.token[1]] = @ + 1]
    /\ asks' = {d} \cup {Met(b, a.token) : b \in asks \ {a}}
    /\ UNCHANGED <<refresh, disk, dead, rotated, askers, unsure>>

LEMMA RotatedKeeps ==
    ASSUME IInv, NEW a \in asks, NEW d, Rotated(a, d)
    PROVE  Protocol'
<1> USE DEF IInv, Protocol
<1>1. PICK f : f = a.token[1]
  OBVIOUS
<1>2. PICK x : x = a.token
  OBVIOUS
<1>3. /\ f \in Families /\ x \in Tokens /\ x[1] = f /\ x[2] = current[f]
      /\ x[2] \in 1 .. MaxSessions /\ current[f] \in 0 .. MaxSessions
      /\ x = <<x[1], x[2]>>
  BY <1>1, <1>2, AskFacts DEF Rotated
<1>4. /\ current'[f] = current[f] + 1
      /\ \A g \in Families : g # f => current'[g] = current[g]
      /\ \A g \in Families : current[g] \in Nat /\ current[g] <= current'[g]
      /\ UNCHANGED <<refresh, disk, dead, rotated, askers, unsure>>
      /\ d.token = x /\ d.tab = a.tab /\ d.client = a.client /\ d.answer = "rotated"
      /\ a.token = x /\ a.answer = "pending"
      /\ asks' = {d} \cup {Met(b, x) : b \in asks \ {a}}
  BY <1>1, <1>2, <1>3, BrowserSessionAssumption DEF Rotated, TypeOK
<1>5. \A y \in Tokens : y[2] <= current[y[1]] => y # Successor(x)
  <2>1. Successor(x)[1] = f /\ Successor(x)[2] = x[2] + 1
    BY <1>3 DEF Successor
  <2> QED BY <1>3, <2>1, TokenFacts
<1>6. Known'
  <2>1. \A s \in Tabs : refresh[s] # None => refresh[s][1] \in Families /\ refresh[s][2] \in Nat
    BY HeldFacts DEF TypeOK
  <2>2. disk.refresh # None => disk.refresh[1] \in Families /\ disk.refresh[2] \in Nat
    BY HeldFacts DEF TypeOK
  <2>3. \A s \in Tabs : \A y \in rotated[s] : y[1] \in Families /\ y[2] \in Nat
    BY TokenFacts DEF TypeOK
  <2>4. \A b \in asks' : /\ b.token[2] <= current'[b.token[1]]
                         /\ b.answer = "rotated" => b.token[2] < current'[b.token[1]]
    <3>1. d.token[2] < current'[d.token[1]] /\ d.token[2] <= current'[d.token[1]]
      BY <1>3, <1>4
    <3>2. ASSUME NEW b \in asks
          PROVE  /\ b.token[2] <= current'[b.token[1]]
                 /\ b.answer = "rotated" => b.token[2] < current'[b.token[1]]
      <4>1. b.token[1] \in Families /\ b.token[2] \in 1 .. MaxSessions
        BY AskFacts
      <4>2. current[b.token[1]] <= current'[b.token[1]] /\ current[b.token[1]] \in Nat
            /\ current'[b.token[1]] \in Nat
        BY <1>3, <1>4, <4>1
      <4> QED BY <4>1, <4>2 DEF Known
    <3> QED BY <1>4, <3>1, <3>2, MetFacts
  <2>5. \A g \in Families : current'[g] \in Nat
    BY <1>3, <1>4
  <2>6. \A s \in Tabs : refresh[s] # None => refresh[s][2] <= current'[refresh[s][1]]
    BY <1>4, <2>1, <2>5 DEF Known
  <2>7. disk.refresh # None => disk.refresh[2] <= current'[disk.refresh[1]]
    BY <1>4, <2>2, <2>5 DEF Known
  <2>8. \A s \in Tabs : \A y \in rotated[s] : y[2] <= current'[y[1]]
    BY <1>4, <2>3, <2>5 DEF Known
  <2> QED BY <1>4, <2>4, <2>6, <2>7, <2>8 DEF Known
<1>7. AnswersAreNew'
  <2>1. \A b \in asks : b.answer = "rotated" => b.token # x
    BY <1>3 DEF Known
  <2>2. ASSUME NEW b \in asks PROVE b.token # Successor(x)
    BY <1>5, AskFacts DEF Known
  <2>3. \A s \in Tabs : refresh[s] # Successor(x) /\ Successor(x) \notin rotated[s]
    <3>1. Successor(x) # None
      BY <1>3, <1>4, BrowserSessionAssumption DEF Successor, Families, Rotated
    <3> QED BY <1>5, <3>1 DEF Known, TypeOK, Stored
  <2>4. disk.refresh # Successor(x)
    <3>1. Successor(x) # None
      BY <1>3, <1>4, BrowserSessionAssumption DEF Successor, Families, Rotated
    <3> QED BY <1>5, <3>1 DEF Known, TypeOK, Stored
  <2>5. Unheard(d)'
    <3>1. \A b \in asks' : b.answer = "rotated" /\ b.token = x => b = d
      BY <1>4, <2>1, MetFacts
    <3>2. \A b \in asks' : b.token # Successor(x)
      <4>1. x # Successor(x)
        BY <1>3 DEF Successor
      <4> QED BY <1>4, <2>2, <4>1, MetFacts
    <3>3. PICK e : e = d
      OBVIOUS
    <3>4. Unheard(e)'
      BY <1>4, <2>3, <2>4, <3>1, <3>2, <3>3 DEF Unheard
    <3> QED BY <3>3, <3>4
  <2>6. ASSUME NEW b \in asks', b # d, b.answer = "rotated" PROVE Unheard(b)'
    <3>1. PICK c \in asks \ {a} : b = Met(c, x)
      BY <1>4, <2>6
    <3>2. b.token = c.token /\ c.answer = "rotated" /\ Unheard(c)
      BY <2>6, <3>1, MetFacts DEF AnswersAreNew
    <3>3. c.token # x
      BY <2>1, <3>2
    <3>4. \A e \in asks' : e.answer = "rotated" /\ e.token = b.token => e = b
      BY <1>4, <3>1, <3>2, <3>3, MetFacts DEF Unheard
    <3>5. \A e \in asks' : e.token # Successor(b.token)
      BY <1>4, <3>2, MetFacts DEF Unheard
    <3> QED BY <1>4, <3>2, <3>4, <3>5 DEF Unheard
  <2> QED BY <2>5, <2>6 DEF AnswersAreNew
<1>8. SingleFlight'
  <2> SUFFICES ASSUME NEW b \in asks', NEW c \in asks', b.tab # None, b.tab = c.tab,
                      b.client = c.client
               PROVE  b = c
    BY DEF SingleFlight
  <2>1. b = d \/ \E e \in asks \ {a} : b = Met(e, x)
    BY <1>4
  <2>2. c = d \/ \E e \in asks \ {a} : c = Met(e, x)
    BY <1>4
  <2>3. ASSUME NEW e \in asks \ {a}, e.tab # None, e.tab = a.tab, e.client = a.client PROVE FALSE
    BY <2>3 DEF SingleFlight
  <2>4. ASSUME NEW e \in asks, NEW h \in asks, e.tab # None, e.tab = h.tab, e.client = h.client
        PROVE  e = h
    BY <2>4 DEF SingleFlight
  <2> QED BY <1>4, <2>1, <2>2, <2>3, <2>4, MetFacts
<1>9. ~Shared(f) => \A b \in asks : b.token[1] = f => b = a
  <2> SUFFICES ASSUME ~Shared(f), NEW b \in asks, b.token[1] = f PROVE b = a
    OBVIOUS
  <2>1. Alone(a) /\ Alone(b)
    BY <1>1 DEF Sole
  <2>2. <<a.tab, a.client>> = <<b.tab, b.client>>
    BY <1>1, <2>1 DEF Alone, Shared
  <2> QED BY <2>1, <2>2 DEF Alone, SingleFlight
<1>10. Sole'
  <2> SUFFICES ASSUME NEW b \in asks' PROVE (askers[b.token[1]] # {} /\ (Shared(b.token[1]) \/ Alone(b)))'
    BY DEF Sole
  <2>1. CASE b = d
    <3>1. askers[f] # {} /\ (Shared(f) \/ Alone(a))
      BY <1>1 DEF Sole
    <3> QED BY <1>1, <1>3, <1>4, <2>1, <3>1 DEF Alone, Shared
  <2>2. CASE b # d
    <3>1. PICK c \in asks \ {a} : b = Met(c, x)
      BY <1>4, <2>2
    <3>2. /\ b.token = c.token /\ b.tab = c.tab /\ b.client = c.client /\ b.answer = c.answer
          /\ c.token[1] \in Families
      BY <3>1, MetFacts, AskFacts
    <3>3. askers[c.token[1]] # {} /\ (Shared(c.token[1]) \/ Alone(c))
      BY DEF Sole
    <3>4. c.token[1] # f \/ Shared(f)
      BY <1>9, <3>1
    <3> QED BY <1>4, <3>2, <3>3, <3>4 DEF Alone, Shared
  <2> QED BY <2>1, <2>2
<1>11. Kept'
  <2> SUFFICES ASSUME NEW g \in Families PROVE KeptOf(g)'
    BY DEF Kept
  <2>1. KeptOf(g)
    BY DEF Kept
  <2>2. CASE g = f
    <3>1. askers[f] # {} /\ d \in asks' /\ d.token[1] = f /\ d.answer = "rotated"
      BY <1>1, <1>3, <1>4 DEF Sole
    <3> QED BY <1>4, <2>2, <3>1 DEF KeptOf
  <2>3. CASE g # f
    <3>1. \A b \in asks : b.answer = "rotated" => Met(b, x) \in asks'
                          /\ Met(b, x).answer = "rotated" /\ Met(b, x).token = b.token
      BY <1>4, MetFacts
    <3> QED BY <1>4, <2>1, <2>3, <3>1 DEF KeptOf, Shared
  <2> QED BY <2>2, <2>3
<1>12. NoSpentToken' /\ OneClientIsNoReplay'
  BY <1>4 DEF NoSpentToken, OneClientIsNoReplay
<1> QED BY <1>6, <1>7, <1>8, <1>10, <1>11, <1>12

-----------------------------------------------------------------------------
(* Types *)

LEMMA CallFacts ==
    ASSUME TypeOK, NEW r \in Requests, req[r].at # "ended"
    PROVE  /\ req[r].at \in UnderWay /\ req[r].tab \in Tabs /\ req[r].client \in Clients
           /\ req[r].token \in Stored /\ req[r].retried \in BOOLEAN
           /\ req[r] \in [at : UnderWay, tab : Tabs, client : Clients, token : Stored,
                          retried : BOOLEAN]
  <1>1. req[r] \in Calls /\ req[r] # Ended
    BY DEF TypeOK, Ended
  <1> QED BY <1>1 DEF Calls

LEMMA setTokensType ==
    ASSUME TypeOK, NEW t \in Tabs, NEW token \in Tokens, NEW known \in BOOLEAN,
           setTokens(t, token, known)
    PROVE  /\ access' \in [Tabs -> Stored] /\ refresh' \in [Tabs -> Stored]
           /\ expiry' \subseteq Tabs
           /\ disk' \in [access : Stored, refresh : Stored, expiry : BOOLEAN]
  BY DEF TypeOK, setTokens, Stored

LEMMA logoutType ==
    ASSUME TypeOK, NEW t, logout(t)
    PROVE  /\ access' \in [Tabs -> Stored] /\ refresh' \in [Tabs -> Stored]
           /\ expiry' \subseteq Tabs
           /\ disk' \in [access : Stored, refresh : Stored, expiry : BOOLEAN]
           /\ \A s \in Tabs : refresh'[s] \in {refresh[s], None}
           /\ disk'.refresh = None
  BY DEF TypeOK, logout, Stored

LEMMA RefreshWaitsSteps ==
    ASSUME IInv, NEW t \in Tabs, NEW c \in Clients, RefreshWaits(t, c),
           UNCHANGED <<refresh, disk, current, dead, rotated, unsure>>
    PROVE  /\ asks' \subseteq Asks /\ askers' \in [Families -> SUBSET (Tabs \X Clients)]
           /\ Protocol'
<1>1. CASE UNCHANGED <<asks, askers>>
  <2>1. Shrinks
    BY <1>1 DEF Shrinks
  <2> QED BY <1>1, <2>1, ShrinkKeeps DEF IInv, TypeOK
<1>2. CASE ~UNCHANGED <<asks, askers>>
  <2>1. Asked(t, c)
    BY <1>2 DEF RefreshWaits, RefreshFails, Asked
  <2>2. refresh[t] \in Tokens /\ refresh[t][1] \in Families
    BY <2>1, HeldFacts DEF IInv, TypeOK, Asked
  <2>3. Ask(t, c) \in Asks
    BY <2>2 DEF Ask, Asks, Answers
  <2>4. askers' \in [Families -> SUBSET (Tabs \X Clients)]
    BY <2>1, <2>2 DEF Asked, IInv, TypeOK
  <2>5. asks' \subseteq Asks
    BY <2>1, <2>3 DEF Asked, IInv, TypeOK
  <2> QED BY <2>1, <2>4, <2>5, AskedKeeps
<1> QED BY <1>1, <1>2

-----------------------------------------------------------------------------
(* Every step keeps the invariant *)

LEMMA InitInvariant == Init => IInv
<1> SUFFICES ASSUME Init PROVE IInv
  OBVIOUS
<1>1. TypeOK
  BY BrowserSessionAssumption DEF Init, TypeOK, Stored, Calls
<1>2. Known /\ AnswersAreNew /\ SingleFlight /\ Sole
  BY DEF Init, Known, AnswersAreNew, SingleFlight, Sole
<1>3. Kept
  BY DEF Init, Kept, KeptOf
<1>4. NoSpentToken /\ OneClientIsNoReplay
  BY DEF Init, NoSpentToken, OneClientIsNoReplay
<1> QED BY <1>1, <1>2, <1>3, <1>4 DEF IInv, Protocol

LEMMA StoreSteps ==
    ASSUME IInv, NEW t \in Tabs, SignIn(t) \/ SignOut(t) \/ setProfile(t)
    PROVE  IInv'
<1>1. CASE SignIn(t)
  <2>1. PICK f \in Families, known \in ExpiresIn :
            /\ current[f] = 0 /\ current' = [current EXCEPT ![f] = 1]
            /\ setTokens(t, <<f, 1>>, known)
    BY <1>1 DEF SignIn
  <2>2. <<f, 1>> \in Tokens /\ known \in BOOLEAN /\ 1 \in 0 .. MaxSessions
    BY BrowserSessionAssumption DEF Tokens
  <2>3. UNCHANGED <<broken, asks, req, dead, lapsed, rotated, askers, mishaps, unsure>>
    BY <1>1 DEF SignIn, history
  <2>4. SignedIn(t, f)
    BY <2>1, <2>3 DEF SignedIn, setTokens
  <2>5. Protocol'
    BY <2>4, SignedInKeeps
  <2>6. TypeOK'
    BY <2>1, <2>2, <2>3, setTokensType DEF IInv, TypeOK
  <2> QED BY <2>5, <2>6 DEF IInv
<1>2. CASE SignOut(t)
  <2>1. logout(t) /\ UNCHANGED <<broken, asks, req, current, dead, lapsed, rotated, askers, mishaps, unsure>>
    BY <1>2 DEF SignOut, server, history
  <2>2. Shrinks
    BY <2>1, logoutType DEF Shrinks, IInv
  <2>3. TypeOK'
    BY <2>1, logoutType DEF IInv, TypeOK
  <2> QED BY <2>2, <2>3, ShrinkKeeps DEF IInv
<1>3. CASE setProfile(t)
  <2>1. /\ disk' = [access |-> access[t], refresh |-> refresh[t], expiry |-> t \in expiry]
        /\ UNCHANGED <<access, refresh, expiry, broken, asks, req, current, dead, lapsed, rotated,
                       askers, mishaps, unsure>>
    BY <1>3 DEF setProfile, server, history
  <2>2. Shrinks
    BY <2>1 DEF Shrinks
  <2>3. (t \in expiry) \in BOOLEAN
    OBVIOUS
  <2>4. TypeOK'
    BY <2>1, <2>3 DEF IInv, TypeOK
  <2> QED BY <2>2, <2>4, ShrinkKeeps DEF IInv
<1> QED BY <1>1, <1>2, <1>3

\* Steps that only change calls, or access tokens.
LEMMA QuietSteps ==
    ASSUME IInv, req' \in [Requests -> Calls], lapsed' \subseteq Families,
           UNCHANGED <<access, refresh, expiry, disk, broken, asks, current, dead, rotated,
                       askers, mishaps, unsure>>
    PROVE  IInv'
<1>1. Shrinks
  BY DEF Shrinks
<1>2. TypeOK'
  BY DEF IInv, TypeOK
<1> QED BY <1>1, <1>2, ShrinkKeeps DEF IInv

LEMMA CallSteps ==
    ASSUME IInv, NEW r \in Requests,
           \/ \E t \in Tabs, c \in Clients : Send(r, t, c)
           \/ \E t \in Tabs : SendRenewing(r, t)
           \/ Answer(r)
    PROVE  IInv'
<1>1. ASSUME NEW t \in Tabs, NEW c \in Clients, Send(r, t, c) PROVE IInv'
  <2>1. req' \in [Requests -> Calls]
    BY <1>1 DEF Send, IInv, TypeOK, Calls, UnderWay
  <2> QED BY <1>1, <2>1, QuietSteps DEF Send, store, server, history, IInv, TypeOK
<1>2. ASSUME NEW t \in Tabs, SendRenewing(r, t) PROVE IInv'
  <2>1. req' \in [Requests -> Calls]
    BY <1>2 DEF SendRenewing, IInv, TypeOK, Calls, UnderWay, Stored
  <2>2. /\ RefreshWaits(t, "api") /\ "api" \in Clients
        /\ UNCHANGED <<access, refresh, expiry, disk, broken, current, dead, lapsed, rotated,
                       mishaps, unsure>>
    BY <1>2 DEF SendRenewing, store, server
  <2>3. TypeOK' /\ Protocol'
    BY <2>1, <2>2, RefreshWaitsSteps DEF IInv, TypeOK
  <2> QED BY <2>3 DEF IInv
<1>3. CASE Receive(r) \/ Rejected(r)
  <2>1. req' \in [Requests -> Calls]
    BY <1>3 DEF Receive, Rejected, IInv, TypeOK, Calls
  <2> QED BY <1>3, <2>1, QuietSteps DEF Receive, Rejected, store, server, history, IInv, TypeOK
<1>4. CASE Unauthorized(r)
  <2>1. req[r].at # "ended"
    BY <1>4 DEF Unauthorized
  <2>2. req' \in [Requests -> Calls]
    <3>1. [req[r] EXCEPT !.at = "waiting"] \in Calls
      BY <2>1, CallFacts DEF IInv, Calls, UnderWay
    <3> QED BY <1>4, <3>1 DEF Unauthorized, IInv, TypeOK
  <2>3. PICK t \in Tabs, c \in Clients : t = req[r].tab /\ c = req[r].client
    BY <2>1, CallFacts DEF IInv
  <2>4. /\ RefreshWaits(t, c)
        /\ UNCHANGED <<access, refresh, expiry, disk, broken, current, dead, lapsed, rotated,
                       mishaps, unsure>>
    BY <1>4, <2>3 DEF Unauthorized, store, server
  <2>5. TypeOK' /\ Protocol'
    BY <2>2, <2>4, RefreshWaitsSteps DEF IInv, TypeOK
  <2> QED BY <2>5 DEF IInv
<1>5. CASE UnauthorizedFails(r)
  <2>1. req[r].at # "ended"
    BY <1>5 DEF UnauthorizedFails
  <2>2. PICK t \in Tabs : t = req[r].tab
    BY <2>1, CallFacts DEF IInv
  <2>3. /\ logout(t) /\ broken' \in {broken, broken \cup {t}} /\ req' = [req EXCEPT ![r] = Ended]
        /\ UNCHANGED <<asks, current, dead, lapsed, rotated, askers, mishaps, unsure>>
    BY <1>5, <2>2 DEF UnauthorizedFails, server, history
  <2>4. Shrinks
    BY <2>3, logoutType DEF Shrinks, IInv
  <2>5. TypeOK'
    BY <2>3, logoutType DEF IInv, TypeOK, Calls
  <2> QED BY <2>4, <2>5, ShrinkKeeps DEF IInv
<1>6. CASE Serve(r)
  <2>1. req[r].at # "ended"
    BY <1>6 DEF Serve
  <2>2. PICK at \in {"fine", "unauthorized"} : req' = [req EXCEPT ![r].at = at, ![r].token = None]
    BY <1>6 DEF Serve
  <2>3. [req[r] EXCEPT !.at = at, !.token = None] \in Calls
    BY <2>1, CallFacts DEF IInv, Calls, UnderWay, Stored
  <2>4. req' \in [Requests -> Calls]
    BY <2>2, <2>3 DEF IInv, TypeOK
  <2> QED BY <1>6, <2>4, QuietSteps DEF Serve, store, server, history, IInv, TypeOK
<1> QED BY <1>1, <1>2, <1>3, <1>4, <1>5, <1>6 DEF Answer

LEMMA RenewedStep ==
    ASSUME IInv, NEW a \in asks, Renewed(a)
    PROVE  IInv'
<1>1. PICK next : next = Successor(a.token)
  OBVIOUS
<1>2. PICK t : t = a.tab
  OBVIOUS
<1>3. PICK known \in ExpiresIn : setTokens(t, next, known)
  BY <1>1, <1>2 DEF Renewed, Successor
<1>4. /\ req' = [r \in Requests |->
                    IF r \in Waiting(a, "waiting") \cup Waiting(a, "before")
                    THEN Resent(req[r], next) ELSE req[r]]
      /\ asks' = asks \ {a} /\ a.tab # None /\ a.answer = "rotated"
      /\ rotated' = [rotated EXCEPT ![t] = @ \cup {a.token}]
      /\ UNCHANGED <<broken, current, dead, lapsed, askers, mishaps, unsure>>
  BY <1>1, <1>2 DEF Renewed, Successor, server
<1>5. /\ t \in Tabs /\ known \in BOOLEAN /\ next \in Tokens /\ a.token \in Tokens
  <2>1. a.token[1] \in Families /\ a.token[2] + 1 \in 1 .. MaxSessions
    BY <1>4, AskFacts, BrowserSessionAssumption DEF IInv, Protocol, Known
  <2> QED BY <1>1, <1>2, <1>4, <2>1, AskFacts, BrowserSessionAssumption DEF IInv, Successor, Tokens
<1>6. Brought(a)
  BY <1>1, <1>2, <1>3, <1>4 DEF Brought, setTokens
<1>7. req' \in [Requests -> Calls]
  <2>1. ASSUME NEW r \in Requests, r \in Waiting(a, "waiting") \cup Waiting(a, "before")
        PROVE  Resent(req[r], next) \in Calls
    <3>1. req[r].at # "ended"
      BY <2>1 DEF Waiting
    <3>2. (req[r].at = "waiting") \in BOOLEAN /\ next \in Stored
      BY <1>5 DEF Stored
    <3> QED BY <3>1, <3>2, CallFacts DEF IInv, Resent, Calls, UnderWay
  <2> QED BY <1>4, <2>1 DEF IInv, TypeOK
<1>8. TypeOK'
  <2>1. rotated' \in [Tabs -> SUBSET Tokens]
    BY <1>4, <1>5 DEF IInv, TypeOK
  <2> QED BY <1>3, <1>4, <1>5, <1>7, <2>1, setTokensType DEF IInv, TypeOK
<1> QED BY <1>6, <1>8, BroughtKeeps DEF IInv

LEMMA NotRenewedStep ==
    ASSUME IInv, NEW a \in asks, NotRenewed(a)
    PROVE  IInv'
<1>1. PICK t \in Tabs : t = a.tab
  BY AskFacts DEF IInv, NotRenewed
<1>2. /\ logout(t) \/ UNCHANGED <<access, refresh, expiry, disk>>
      /\ asks' = asks \ {a} /\ a.answer # "rotated"
      /\ UNCHANGED <<broken, current, dead, lapsed, rotated, askers, mishaps, unsure>>
  BY <1>1 DEF NotRenewed, store, server, history
<1>3. /\ access' \in [Tabs -> Stored] /\ refresh' \in [Tabs -> Stored] /\ expiry' \subseteq Tabs
      /\ disk' \in [access : Stored, refresh : Stored, expiry : BOOLEAN]
  BY <1>2, logoutType DEF IInv, TypeOK
<1>4. PICK token \in {access[t], access'[t]} :
        req' = [r \in Requests |->
                  CASE r \in Waiting(a, "waiting") -> Ended
                    [] r \in Waiting(a, "before") -> Resent(req[r], token)
                    [] OTHER -> req[r]]
  BY <1>1 DEF NotRenewed
<1>5. req' \in [Requests -> Calls]
  <2>1. token \in Stored
    BY <1>3, <1>4 DEF IInv, TypeOK
  <2>2. ASSUME NEW r \in Requests, r \in Waiting(a, "before") PROVE Resent(req[r], token) \in Calls
    <3>1. req[r].at # "ended"
      BY <2>2 DEF Waiting
    <3>2. (req[r].at = "waiting") \in BOOLEAN
      OBVIOUS
    <3> QED BY <2>1, <3>1, <3>2, CallFacts DEF IInv, Resent, Calls, UnderWay
  <2>3. Ended \in Calls
    BY DEF Calls
  <2> QED BY <1>4, <2>2, <2>3 DEF IInv, TypeOK
<1>6. Shrinks
  BY <1>2, logoutType DEF Shrinks, IInv
<1>7. TypeOK'
  BY <1>2, <1>3, <1>5 DEF IInv, TypeOK
<1> QED BY <1>6, <1>7, ShrinkKeeps DEF IInv

LEMMA FailSteps ==
    ASSUME IInv, NEW a \in asks, DetectReuse(a) \/ Lose(a)
    PROVE  IInv'
<1>1. PICK b : b = [a EXCEPT !.answer = IF DetectReuse(a) THEN "refused" ELSE "lost"]
  OBVIOUS
<1>2. b \in Asks /\ b.tab = a.tab /\ b.client = a.client /\ b.token = a.token
      /\ b.answer = (IF DetectReuse(a) THEN "refused" ELSE "lost")
  BY <1>1, AnswerFacts DEF IInv, Answers
<1>3. Failed(a, b)
  BY <1>1, <1>2 DEF Failed, DetectReuse, Lose, store, server, history
<1>4. a.token[1] \in Families
  BY AskFacts DEF IInv
<1>5. UNCHANGED <<access, refresh, expiry, disk, broken, req, current, lapsed, rotated, askers>>
      /\ (mishaps' = mishaps \/ mishaps' = mishaps + 1)
  BY DEF DetectReuse, Lose, store, server, history
<1>6. asks' \subseteq Asks /\ dead' \subseteq Families /\ unsure' \subseteq Families
  BY <1>2, <1>3, <1>4 DEF Failed, IInv, TypeOK
<1>7. TypeOK'
  BY <1>5, <1>6 DEF IInv, TypeOK
<1> QED BY <1>3, <1>7, FailedKeeps DEF IInv

LEMMA RotateStep ==
    ASSUME IInv, NEW a \in asks, Rotate(a)
    PROVE  IInv'
<1>1. /\ a.answer = "pending" /\ a.token[2] = current[a.token[1]]
      /\ a.token[1] \in Families /\ a.token[2] \in 1 .. MaxSessions
      /\ UNCHANGED <<access, refresh, expiry, disk, broken, req, dead, rotated, askers, mishaps, unsure>>
  BY AskFacts DEF Rotate, Replaced, store, history, IInv
<1>2. CASE a.token[2] < MaxSessions
  <2>1. PICK d : d = [a EXCEPT !.answer = "rotated"]
    OBVIOUS
  <2>2. d \in Asks /\ d.tab = a.tab /\ d.client = a.client /\ d.token = a.token
        /\ d.answer = "rotated"
    BY <2>1, AnswerFacts DEF IInv, Answers
  <2>3. /\ current' = [current EXCEPT ![a.token[1]] = @ + 1]
        /\ lapsed' = lapsed \ {a.token[1]}
        /\ asks' = {d} \cup {Met(b, a.token) : b \in asks \ {a}}
    BY <1>2, <2>1 DEF Rotate, Met
  <2>4. Rotated(a, d)
    BY <1>1, <1>2, <2>2, <2>3 DEF Rotated
  <2>5. asks' \subseteq Asks
    BY <2>2, <2>3, MetFacts DEF IInv
  <2>6. current' \in [Families -> 0 .. MaxSessions]
    <3>1. current[a.token[1]] + 1 \in 0 .. MaxSessions
      BY <1>1, <1>2, BrowserSessionAssumption
    <3> QED BY <2>3, <3>1 DEF IInv, TypeOK
  <2>7. TypeOK'
    BY <1>1, <2>3, <2>5, <2>6 DEF IInv, TypeOK
  <2> QED BY <2>4, <2>7, RotatedKeeps DEF IInv
<1>3. CASE ~(a.token[2] < MaxSessions)
  <2>1. PICK b : b = [a EXCEPT !.answer = "refused"]
    OBVIOUS
  <2>2. b \in Asks /\ b.tab = a.tab /\ b.client = a.client /\ b.token = a.token
        /\ b.answer = "refused"
    BY <2>1, AnswerFacts DEF IInv, Answers
  <2>3. asks' = (asks \ {a}) \cup {b} /\ UNCHANGED <<current, lapsed>>
    BY <1>3, <2>1 DEF Rotate
  <2>4. Failed(a, b)
    BY <1>1, <2>2, <2>3 DEF Failed
  <2>5. TypeOK'
    BY <1>1, <2>2, <2>3 DEF IInv, TypeOK
  <2> QED BY <2>4, <2>5, FailedKeeps DEF IInv
<1> QED BY <1>2, <1>3

LEMMA BrowserSteps ==
    ASSUME IInv, (\E t \in Tabs : Reload(t)) \/ (\E a \in asks : Orphan(a))
                 \/ (\E f \in Families : Lapse(f))
    PROVE  IInv'
<1>1. ASSUME NEW t \in Tabs, Reload(t) PROVE IInv'
  <2>1. asks' = {Gone(a, t) : a \in asks}
    BY <1>1 DEF Reload, Gone
  <2>2. asks' \subseteq Asks
    BY <2>1, GoneFacts DEF IInv
  <2>3. unsure' \subseteq Families
    <3>1. Outdated(disk.refresh) \subseteq Families
      BY HeldFacts DEF Outdated, IInv, TypeOK
    <3> QED BY <1>1, <3>1, AskFacts DEF Reload, IInv, TypeOK
  <2>4. req' \in [Requests -> Calls]
    BY <1>1 DEF Reload, IInv, TypeOK, Calls
  <2>5. /\ access' \in [Tabs -> Stored] /\ refresh' \in [Tabs -> Stored] /\ expiry' \subseteq Tabs
        /\ broken' \subseteq Tabs
    BY <1>1 DEF Reload, IInv, TypeOK, Stored
  <2>6. /\ rotated' \in [Tabs -> SUBSET Tokens] /\ mishaps' \in Nat
        /\ UNCHANGED <<disk, current, dead, lapsed, askers>>
    BY <1>1 DEF Reload, IInv, TypeOK, server
  <2>7. TypeOK'
    BY <2>2, <2>3, <2>4, <2>5, <2>6 DEF IInv, TypeOK
  <2> QED BY <1>1, <2>7, ReloadKeeps DEF IInv
<1>2. ASSUME NEW a \in asks, Orphan(a) PROVE IInv'
  <2>1. /\ asks' = asks \ {a} /\ a.tab = None
        /\ UNCHANGED <<access, refresh, expiry, disk, broken, req, current, dead, lapsed, rotated,
                       askers, mishaps, unsure>>
    BY <1>2 DEF Orphan, store, server, history
  <2>2. Shrinks
    BY <2>1 DEF Shrinks
  <2>3. TypeOK'
    BY <2>1 DEF IInv, TypeOK
  <2> QED BY <2>2, <2>3, ShrinkKeeps DEF IInv
<1>3. ASSUME NEW f \in Families, Lapse(f) PROVE IInv'
  BY <1>3, QuietSteps DEF Lapse, store, history, IInv, TypeOK
<1> QED BY <1>1, <1>2, <1>3

LEMMA NextInvariant == IInv /\ [Next]_vars => IInv'
<1> SUFFICES ASSUME IInv, [Next]_vars PROVE IInv'
  OBVIOUS
<1>1. CASE UNCHANGED vars
  BY <1>1, QuietSteps DEF vars, store, server, history, IInv, TypeOK
<1>2. CASE Next
  BY <1>2, StoreSteps, CallSteps, RenewedStep, NotRenewedStep, FailSteps, RotateStep, BrowserSteps
     DEF Next, Settle
<1> QED BY <1>1, <1>2

-----------------------------------------------------------------------------
(* Theorems *)

LEMMA Invariant == Spec => []IInv
  BY InitInvariant, NextInvariant, PTL DEF Spec

\* The stores of all tabs, the calls under way and the sessions keep their types.
THEOREM TypeCorrect == Spec => []TypeOK
  <1>1. IInv => TypeOK
    BY DEF IInv
  <1> QED BY <1>1, Invariant, PTL

\* No tab holds a refresh token that its page has exchanged (auth.ts:36), with
\* any number of tabs, calls and losses.
THEOREM SpentTokensAreDropped == Spec => []NoSpentToken
  <1>1. IInv => NoSpentToken
    BY DEF IInv, Protocol
  <1> QED BY <1>1, Invariant, PTL

\* A sign-in that one client of one tab uses is not revoked by the reuse detection,
\* unless an answer was lost or a page loaded with an old token (api.ts:122).
THEOREM OneClientIsSafe == Spec => []OneClientIsNoReplay
  <1>1. IInv => OneClientIsNoReplay
    BY DEF IInv, Protocol
  <1> QED BY <1>1, Invariant, PTL

-----------------------------------------------------------------------------
(* The promise of the server *)

\* An answer to a renewal is the only step that continues a sign-in, or ends one.
LEMMA PromiseSteps ==
    ASSUME IInv, [Next]_vars
    PROVE  [Promise!Next]_<<current, Replacements, dead>>
<1>1. ASSUME NEW t \in Tabs, SignIn(t) PROVE Promise!Next
  <2>1. PICK f \in Families : current[f] = 0 /\ current' = [current EXCEPT ![f] = 1] /\ dead' = dead
    BY <1>1 DEF SignIn
  <2>2. Replacements' = Replacements
    BY <2>1 DEF Replacements, IInv, TypeOK
  <2>3. Promise!End
    BY <2>1, <2>2 DEF Promise!End, Promise!Begun
  <2> QED BY <2>3 DEF Promise!Next
<1>2. ASSUME NEW a \in asks, Rotate(a) PROVE [Promise!Next]_<<current, Replacements, dead>>
  <2>1. PICK f \in Families : f = a.token[1] /\ a.token[2] \in 1 .. MaxSessions
    BY AskFacts DEF IInv
  <2>2. CASE a.token[2] < MaxSessions
    <3>1. /\ f \notin dead /\ current[f] # 0 /\ dead' = dead
          /\ current' = [current EXCEPT ![f] = @ + 1]
      BY <1>2, <2>1, <2>2, BrowserSessionAssumption DEF Rotate, Replaced
    <3>2. Replacements' = [Replacements EXCEPT ![f] = @ + 1]
      <4>1. current \in [Families -> 0 .. MaxSessions] /\ MaxSessions \in Nat
        BY BrowserSessionAssumption DEF IInv, TypeOK
      <4>2. Replacements[f] = current[f] - 1 /\ current'[f] = current[f] + 1 /\ current[f] \in Nat
        BY <3>1, <4>1 DEF Replacements
      <4>3. Replacements'[f] = Replacements[f] + 1
        BY <4>2 DEF Replacements
      <4>4. \A g \in Families \ {f} : Replacements'[g] = Replacements[g]
        BY <3>1, <4>1 DEF Replacements
      <4> QED BY <4>3, <4>4 DEF Replacements
    <3>3. Promise!Renew(f)
      BY <3>1, <3>2 DEF Promise!Renew, Promise!Begun
    <3> QED BY <3>3 DEF Promise!Next
  <2>3. CASE ~(a.token[2] < MaxSessions)
    BY <1>2, <2>3 DEF Rotate, Replacements
  <2> QED BY <2>2, <2>3
<1>3. ASSUME NEW a \in asks, DetectReuse(a) PROVE [Promise!Next]_<<current, Replacements, dead>>
  <2>1. PICK f \in Families : /\ f = a.token[1] /\ a.token[2] \in 1 .. MaxSessions
                              /\ current[f] \in 0 .. MaxSessions
    BY AskFacts DEF IInv
  <2>2. current[f] # 0
    BY <2>1, BrowserSessionAssumption DEF IInv, Protocol, Known
  <2>3. current' = current /\ Replacements' = Replacements /\ (dead' = dead \/ dead' = dead \cup {f})
    BY <1>3, <2>1 DEF DetectReuse, Replacements
  <2>4. dead' = dead \cup {f} => Promise!End
    BY <2>2, <2>3 DEF Promise!End, Promise!Begun
  <2> QED BY <2>3, <2>4 DEF Promise!Next
<1>4. ASSUME NEW t \in Tabs, SignOut(t) \/ setProfile(t) \/ Reload(t)
      PROVE  UNCHANGED <<current, Replacements, dead>>
  BY <1>4 DEF SignOut, setProfile, Reload, server, Replacements
<1>5. ASSUME NEW r \in Requests,
             \/ \E t \in Tabs : SendRenewing(r, t) \/ \E c \in Clients : Send(r, t, c)
             \/ Answer(r)
      PROVE  UNCHANGED <<current, Replacements, dead>>
  BY <1>5 DEF SendRenewing, Send, Answer, Receive, Unauthorized, UnauthorizedFails, Rejected,
     Serve, server, Replacements
<1>6. ASSUME NEW a \in asks, Renewed(a) \/ NotRenewed(a) \/ Orphan(a) \/ Lose(a)
      PROVE  UNCHANGED <<current, Replacements, dead>>
  BY <1>6 DEF Renewed, NotRenewed, Orphan, Lose, server, Replacements
<1>7. ASSUME NEW f \in Families, Lapse(f) PROVE UNCHANGED <<current, Replacements, dead>>
  BY <1>7 DEF Lapse, Replacements
<1>8. CASE UNCHANGED vars
  BY <1>8 DEF vars, server, Replacements
<1> QED BY <1>1, <1>2, <1>3, <1>4, <1>5, <1>6, <1>7, <1>8 DEF Next, Settle

\* What the tabs see of the server, whatever they send it and in whichever order its
\* answers come, is a server that keeps the promise Sessions keeps: each token of a
\* sign-in is exchanged at most once, and none after its end.
THEOREM BrowserSessionImplements == Spec => Implements
  <1>1. Init => Promise!Init
    BY DEF Init, Promise!Init, Replacements
  <1> QED BY InitInvariant, NextInvariant, PromiseSteps, <1>1, PTL
          DEF Spec, Implements, Promise!Spec

-----------------------------------------------------------------------------
(* Calls and the renewals they wait for *)

\* The renewal of a client of a tab has no answer yet, or one it has not got to.
Pends(t, c) == \E a \in InFlight(t, c) : a.answer = "pending"
Heard(t, c) == \E a \in InFlight(t, c) : a.answer # "pending"

\* Call r is at a stage; again: it is the second attempt.
Call(r, t, c, at) == req[r].at = at /\ req[r].tab = t /\ req[r].client = c
First(r, t, c, at) == Call(r, t, c, at) /\ ~req[r].retried
Again(r, t, c, at) == Call(r, t, c, at) /\ req[r].retried
Finished(r) == req[r].at = "ended"

\* A renewal ends where its tab takes the answer.
Taken(t, c) == \E a \in InFlight(t, c) : Renewed(a) \/ NotRenewed(a)

LEMMA OneRenewal ==
    ASSUME SingleFlight, NEW t \in Tabs, NEW c, NEW a \in InFlight(t, c), NEW b \in InFlight(t, c)
    PROVE  a = b
  BY BrowserSessionAssumption DEF SingleFlight, InFlight

\* Until then, or until its page is loaded anew, it is under way, and the
\* answer it has stays.
Carried(a) ==
    \E b \in asks' : /\ b.tab = a.tab /\ b.client = a.client
                     /\ a.answer # "pending" => b.answer # "pending"

LEMMA RenewalStays ==
    ASSUME IInv, [Next]_vars, NEW a \in asks, a.tab # None
    PROVE  Carried(a) \/ Reload(a.tab) \/ Renewed(a) \/ NotRenewed(a)
<1>1. ASSUME a \in asks' PROVE Carried(a)
  BY <1>1 DEF Carried
<1>2. ASSUME NEW t, NEW c, RefreshWaits(t, c) PROVE a \in asks'
  BY <1>2 DEF RefreshWaits
<1>3. CASE UNCHANGED asks
  BY <1>1, <1>3
<1>4. ASSUME NEW t \in Tabs, Reload(t), t # a.tab PROVE a \in asks'
  BY <1>4 DEF Reload
<1>5. ASSUME NEW d \in asks, Renewed(d) \/ NotRenewed(d), a # d PROVE a \in asks'
  BY <1>5 DEF Renewed, NotRenewed
<1>12. ASSUME NEW d \in asks, Orphan(d) PROVE a \in asks'
  BY <1>12 DEF Orphan
<1>6. ASSUME NEW d \in asks, Lose(d) \/ DetectReuse(d) PROVE Carried(a)
  <2>1. PICK b : /\ b = [d EXCEPT !.answer = IF DetectReuse(d) THEN "refused" ELSE "lost"]
    OBVIOUS
  <2>2. b.tab = d.tab /\ b.client = d.client /\ b.answer # "pending"
    BY <2>1, AnswerFacts DEF IInv, Answers
  <2>3. asks' = (asks \ {d}) \cup {b}
    BY <1>6, <2>1 DEF Lose, DetectReuse
  <2> QED
    BY <2>2, <2>3 DEF Carried
<1>7. ASSUME NEW d \in asks, Rotate(d) PROVE Carried(a)
  <2>1. CASE d.token[2] < MaxSessions
    <3>1. PICK b : b = [d EXCEPT !.answer = "rotated"]
      OBVIOUS
    <3>2. b.tab = d.tab /\ b.client = d.client /\ b.answer # "pending"
      BY <3>1, AnswerFacts DEF IInv, Answers
    <3>3. asks' = {b} \cup {Met(x, d.token) : x \in asks \ {d}}
      BY <1>7, <2>1, <3>1 DEF Rotate, Met
    <3>4. CASE a = d
      BY <3>2, <3>3, <3>4 DEF Carried
    <3>5. CASE a # d
      <4>1. Met(a, d.token) \in asks'
        BY <3>3, <3>5
      <4>2. /\ Met(a, d.token).tab = a.tab /\ Met(a, d.token).client = a.client
            /\ Met(a, d.token).answer = a.answer
        BY MetFacts DEF IInv
      <4> QED
        BY <4>1, <4>2 DEF Carried
    <3> QED
      BY <3>4, <3>5
  <2>2. CASE ~(d.token[2] < MaxSessions)
    <3>1. PICK b : b = [d EXCEPT !.answer = "refused"]
      OBVIOUS
    <3>2. b.tab = d.tab /\ b.client = d.client /\ b.answer # "pending"
      BY <3>1, AnswerFacts DEF IInv, Answers
    <3>3. asks' = (asks \ {d}) \cup {b}
      BY <1>7, <2>2, <3>1 DEF Rotate
    <3> QED
      BY <3>2, <3>3 DEF Carried
  <2> QED
    BY <2>1, <2>2
<1>8. ASSUME NEW r \in Requests, Answer(r) PROVE a \in asks'
  BY <1>2, <1>8 DEF Answer, Receive, Unauthorized, UnauthorizedFails, Rejected, Serve
<1>9. ASSUME NEW r \in Requests, NEW t \in Tabs,
             SendRenewing(r, t) \/ \E c \in Clients : Send(r, t, c)
      PROVE  a \in asks'
  BY <1>2, <1>9 DEF SendRenewing, Send
<1>10. ASSUME NEW t \in Tabs, SignIn(t) \/ SignOut(t) \/ setProfile(t) PROVE UNCHANGED asks
  BY <1>10 DEF SignIn, SignOut, setProfile
<1>11. ASSUME NEW f \in Families, Lapse(f) PROVE UNCHANGED asks
  BY <1>11 DEF Lapse
<1>13. CASE \E d \in asks : Settle(d) \/ Lose(d)
  BY <1>13, <1>1, <1>5, <1>6, <1>7, <1>12 DEF Settle
<1>14. CASE \E t \in Tabs : SignIn(t) \/ SignOut(t) \/ setProfile(t) \/ Reload(t)
  BY <1>14, <1>1, <1>3, <1>4, <1>10
<1>15. CASE \E r \in Requests : Answer(r) \/ \E t \in Tabs :
                SendRenewing(r, t) \/ \E c \in Clients : Send(r, t, c)
  BY <1>15, <1>1, <1>8, <1>9
<1>16. CASE UNCHANGED vars
  BY <1>16, <1>3 DEF vars
<1> QED
  BY <1>3, <1>11, <1>13, <1>14, <1>15, <1>16 DEF Next

LEMMA RenewalSteps ==
    ASSUME IInv, [Next]_vars, NEW t \in Tabs, NEW c \in Clients, ~Reload(t), ~Taken(t, c)
    PROVE  /\ Pends(t, c) => Pends(t, c)' \/ Heard(t, c)'
           /\ Heard(t, c) => Heard(t, c)'
<1>1. ASSUME NEW a \in InFlight(t, c) PROVE Carried(a)
  BY RenewalStays, BrowserSessionAssumption DEF Taken, InFlight
<1> QED
  BY <1>1 DEF Pends, Heard, Carried, InFlight

\* A renewal goes on: the server answers, or the tab takes the answer.
LEMMA SettleSteps ==
    ASSUME IInv, NEW t \in Tabs, NEW c \in Clients, SettleOf(t, c)
    PROVE  /\ Pends(t, c) => Heard(t, c)' /\ UNCHANGED req
           /\ Heard(t, c) => Taken(t, c)
<1>1. PICK a \in InFlight(t, c) : Settle(a)
  BY DEF SettleOf
<1>2. a \in asks /\ a.tab = t /\ a.client = c /\ a.tab # None
  BY BrowserSessionAssumption DEF InFlight
<1>3. \A b \in InFlight(t, c) : b = a
  BY OneRenewal DEF IInv, Protocol
<1>4. CASE a.answer = "pending"
  <2>1. Rotate(a) \/ DetectReuse(a)
    BY <1>1, <1>2, <1>4 DEF Settle, Renewed, NotRenewed, Orphan
  <2>2. UNCHANGED req
    BY <2>1 DEF Rotate, DetectReuse
  <2>3. PICK answer \in {"rotated", "refused"} : [a EXCEPT !.answer = answer] \in asks'
    BY <2>1 DEF Rotate, DetectReuse
  <2>4. /\ [a EXCEPT !.answer = answer].tab = t /\ [a EXCEPT !.answer = answer].client = c
        /\ [a EXCEPT !.answer = answer].answer # "pending"
    BY <1>2, AnswerFacts DEF IInv, Answers
  <2>5. Heard(t, c)'
    BY <2>3, <2>4 DEF Heard, InFlight
  <2> QED
    BY <1>3, <1>4, <2>2, <2>5 DEF Heard
<1>5. CASE a.answer # "pending"
  <2>1. Renewed(a) \/ NotRenewed(a)
    BY <1>1, <1>2, <1>5 DEF Settle, Rotate, DetectReuse, Orphan
  <2> QED
    BY <1>3, <1>5, <2>1 DEF Taken, Pends
<1> QED
  BY <1>4, <1>5

LEMMA WaitingStarts ==
    ASSUME NEW t, NEW c, RefreshWaits(t, c)
    PROVE  (InFlight(t, c) # {})'
<1>1. CASE UNCHANGED asks /\ InFlight(t, c) # {}
  BY <1>1 DEF InFlight
<1>2. CASE asks' = asks \cup {Ask(t, c)}
  <2>1. Ask(t, c).tab = t /\ Ask(t, c).client = c
    BY DEF Ask
  <2>2. Ask(t, c) \in asks'
    BY <1>2
  <2> QED
    BY <2>1, <2>2 DEF InFlight
<1> QED
  BY <1>1, <1>2 DEF RefreshWaits

\* A call that waits is left alone until the tab takes the answer, or is loaded
\* anew.
LEMMA WaiterSteps ==
    ASSUME IInv, [Next]_vars, NEW r \in Requests, NEW t \in Tabs, NEW c \in Clients,
           NEW at \in {"before", "waiting"}, Call(r, t, c, at)
    PROVE  /\ Reload(t) => Finished(r)'
           /\ Taken(t, c) => \/ Finished(r)'
                             \/ at = "before" /\ First(r, t, c, "sent")'
                             \/ at = "waiting" /\ Again(r, t, c, "sent")'
           /\ ~Reload(t) /\ ~Taken(t, c) => Call(r, t, c, at)'
<1> USE DEF Call
<1>1. req \in [Requests -> Calls]
  BY DEF IInv, TypeOK
<1>2. ASSUME Reload(t) PROVE Finished(r)'
  BY <1>2 DEF Reload, Finished, Ended
<1>3. ASSUME NEW a \in InFlight(t, c), Renewed(a) \/ NotRenewed(a)
      PROVE  \/ Finished(r)'
             \/ at = "before" /\ First(r, t, c, "sent")'
             \/ at = "waiting" /\ Again(r, t, c, "sent")'
  <2>1. r \in Waiting(a, at)
    BY <1>3 DEF Waiting, InFlight
  <2>2. (\E token : req'[r] = Resent(req[r], token)) \/ req'[r] = Ended
    BY <1>3, <2>1 DEF Renewed, NotRenewed
  <2>3. ASSUME NEW token, req'[r] = Resent(req[r], token)
        PROVE  /\ req'[r].at = "sent" /\ req'[r].tab = t /\ req'[r].client = c
               /\ req'[r].retried = (at = "waiting")
    <3>1. req[r].at # "ended"
      OBVIOUS
    <3>2. req[r] \in [at : UnderWay, tab : Tabs, client : Clients, token : Stored, retried : BOOLEAN]
      BY <3>1, CallFacts DEF IInv
    <3> QED
      BY <2>3, <3>2 DEF Resent
  <2>4. CASE req'[r] = Ended
    BY <2>4 DEF Finished, Ended
  <2>5. CASE \E token : req'[r] = Resent(req[r], token)
    <3>1. /\ req'[r].at = "sent" /\ req'[r].tab = t /\ req'[r].client = c
          /\ req'[r].retried = (at = "waiting")
      BY <2>3, <2>5
    <3>2. CASE at = "before"
      BY <3>1, <3>2 DEF First
    <3>3. CASE at = "waiting"
      BY <3>1, <3>3 DEF Again
    <3> QED
      BY <3>2, <3>3
  <2> QED
    BY <2>2, <2>4, <2>5
<1>4. ASSUME ~Reload(t), ~Taken(t, c) PROVE req'[r] = req[r]
  <2>1. ASSUME NEW d \in asks, Renewed(d) \/ NotRenewed(d) PROVE req'[r] = req[r]
    <3>1. d \notin InFlight(t, c)
      BY <1>4, <2>1 DEF Taken
    <3>2. \A x : r \notin Waiting(d, x)
      BY <3>1 DEF Waiting, InFlight
    <3> QED
      BY <2>1, <3>2 DEF Renewed, NotRenewed
  <2>2. CASE \E d \in asks : Settle(d) \/ Lose(d)
    BY <2>1, <2>2 DEF Settle, Rotate, DetectReuse, Orphan, Lose
  <2>3. CASE \E u \in Tabs : SignIn(u) \/ SignOut(u) \/ setProfile(u) \/ Reload(u)
    BY <1>4, <2>3 DEF SignIn, SignOut, setProfile, Reload
  <2>4. ASSUME NEW q \in Requests, Answer(q) PROVE req'[r] = req[r]
    BY <1>1, <2>4 DEF Answer, Receive, Unauthorized, UnauthorizedFails, Rejected, Serve
  <2>5. ASSUME NEW q \in Requests, NEW u \in Tabs,
               SendRenewing(q, u) \/ \E x \in Clients : Send(q, u, x)
        PROVE  req'[r] = req[r]
    BY <1>1, <2>5 DEF SendRenewing, Send
  <2>6. CASE (\E f \in Families : Lapse(f)) \/ UNCHANGED vars
    BY <2>6 DEF Lapse, vars
  <2> QED
    BY <2>2, <2>3, <2>4, <2>5, <2>6 DEF Next
<1> QED
  BY <1>2, <1>3, <1>4 DEF Taken

\* Any other call is left alone until it is answered, or its page is loaded anew.
LEMMA OtherSteps ==
    ASSUME IInv, [Next]_vars, NEW r \in Requests, ~Answer(r),
           req[r].at \in {"sent", "fine", "unauthorized"}
    PROVE  Finished(r)' \/ req'[r] = req[r]
<1>1. req \in [Requests -> Calls]
  BY DEF IInv, TypeOK
<1>2. ASSUME NEW d, Renewed(d) \/ NotRenewed(d) PROVE req'[r] = req[r]
  BY <1>2 DEF Renewed, NotRenewed, Waiting
<1>3. CASE \E d \in asks : Settle(d) \/ Lose(d)
  BY <1>2, <1>3 DEF Settle, Rotate, DetectReuse, Orphan, Lose
<1>4. CASE \E u \in Tabs : SignIn(u) \/ SignOut(u) \/ setProfile(u) \/ Reload(u)
  BY <1>4 DEF SignIn, SignOut, setProfile, Reload, Finished, Ended
<1>5. ASSUME NEW q \in Requests, Answer(q) PROVE req'[r] = req[r]
  BY <1>1, <1>5 DEF Answer, Receive, Unauthorized, UnauthorizedFails, Rejected, Serve
<1>6. ASSUME NEW q \in Requests, NEW u \in Tabs,
             SendRenewing(q, u) \/ \E x \in Clients : Send(q, u, x)
      PROVE  req'[r] = req[r]
  BY <1>1, <1>6 DEF SendRenewing, Send
<1>7. CASE (\E f \in Families : Lapse(f)) \/ UNCHANGED vars
  BY <1>7 DEF Lapse, vars
<1> QED
  BY <1>3, <1>4, <1>5, <1>6, <1>7 DEF Next

LEMMA AnswerSteps ==
    ASSUME IInv, NEW r \in Requests, NEW t \in Tabs, NEW c \in Clients, Answer(r)
    PROVE  /\ Call(r, t, c, "fine") => Finished(r)'
           /\ Again(r, t, c, "unauthorized") => Finished(r)'
           /\ Again(r, t, c, "sent") => Call(r, t, c, "fine")' \/ Again(r, t, c, "unauthorized")'
           /\ First(r, t, c, "unauthorized") =>
                Finished(r)' \/ (Call(r, t, c, "waiting")' /\ (InFlight(t, c) # {})')
           /\ First(r, t, c, "sent") => Call(r, t, c, "fine")' \/ First(r, t, c, "unauthorized")'
<1> USE DEF Call, First, Again
<1>1. req \in [Requests -> Calls]
  BY DEF IInv, TypeOK
<1>2. ASSUME req[r].at # "ended"
      PROVE  req[r] \in [at : UnderWay, tab : Tabs, client : Clients, token : Stored,
                          retried : BOOLEAN]
  BY <1>2, CallFacts DEF IInv
<1>3. CASE Receive(r)
  BY <1>1, <1>3 DEF Receive, Finished, Ended
<1>4. CASE Rejected(r)
  BY <1>1, <1>4 DEF Rejected, Finished, Ended
<1>5. CASE UnauthorizedFails(r)
  BY <1>1, <1>5 DEF UnauthorizedFails, Finished, Ended
<1>6. CASE Unauthorized(r)
  <2>1. /\ req[r].at = "unauthorized" /\ RefreshWaits(req[r].tab, req[r].client)
        /\ req'[r] = [req[r] EXCEPT !.at = "waiting"]
    BY <1>1, <1>6 DEF Unauthorized
  <2>2. /\ req'[r].at = "waiting" /\ req'[r].tab = req[r].tab /\ req'[r].client = req[r].client
    BY <1>2, <2>1
  <2>3. (InFlight(t, c) # {})' \/ req[r].tab # t \/ req[r].client # c
    BY <2>1, WaitingStarts
  <2> QED
    BY <1>6, <2>1, <2>2, <2>3 DEF Unauthorized
<1>7. CASE Serve(r)
  <2>1. PICK at \in {"fine", "unauthorized"} :
            req[r].at = "sent" /\ req'[r] = [req[r] EXCEPT !.at = at, !.token = None]
    BY <1>1, <1>7 DEF Serve
  <2>2. /\ req'[r].at = at /\ req'[r].tab = req[r].tab /\ req'[r].client = req[r].client
        /\ req'[r].retried = req[r].retried
    BY <1>2, <2>1
  <2> QED
    BY <2>1, <2>2
<1> QED
  BY <1>3, <1>4, <1>5, <1>6, <1>7 DEF Answer

LEMMA UnderWaySplit ==
    ASSUME NEW t, NEW c
    PROVE  InFlight(t, c) # {} <=> Pends(t, c) \/ Heard(t, c)
  BY DEF Pends, Heard

\* A new call that renews the tokens first waits for a renewal from the start.
LEMMA NewSteps ==
    ASSUME IInv, [Next]_vars, NEW r \in Requests, Finished(r)
    PROVE  req'[r].at \in {"before", "waiting"} =>
              /\ req'[r].tab \in Tabs /\ req'[r].client \in Clients
              /\ (InFlight(req[r].tab, req[r].client) # {})'
<1> USE DEF Finished
<1>1. req \in [Requests -> Calls]
  BY DEF IInv, TypeOK
<1>2. ASSUME NEW d, Renewed(d) \/ NotRenewed(d) PROVE req'[r] = req[r]
  BY <1>2 DEF Renewed, NotRenewed, Waiting
<1>3. CASE \E d \in asks : Settle(d) \/ Lose(d)
  BY <1>2, <1>3 DEF Settle, Rotate, DetectReuse, Orphan, Lose
<1>4. CASE \E u \in Tabs : SignIn(u) \/ SignOut(u) \/ setProfile(u) \/ Reload(u)
  BY <1>4 DEF SignIn, SignOut, setProfile, Reload, Ended
<1>5. ASSUME NEW q \in Requests, Answer(q) PROVE req'[r] = req[r]
  BY <1>1, <1>5 DEF Answer, Receive, Unauthorized, UnauthorizedFails, Rejected, Serve
<1>6. ASSUME NEW q \in Requests, NEW u \in Tabs, q # r,
             SendRenewing(q, u) \/ \E x \in Clients : Send(q, u, x)
      PROVE  req'[r] = req[r]
  BY <1>1, <1>6 DEF SendRenewing, Send
<1>7. ASSUME NEW u \in Tabs, NEW x \in Clients, Send(r, u, x) PROVE req'[r].at = "sent"
  BY <1>1, <1>7 DEF Send
<1>8. ASSUME NEW u \in Tabs, SendRenewing(r, u)
      PROVE  /\ req'[r].tab = u /\ req'[r].client = "api" /\ "api" \in Clients
             /\ (InFlight(u, "api") # {})'
  BY <1>1, <1>8, WaitingStarts DEF SendRenewing
<1>9. CASE (\E f \in Families : Lapse(f)) \/ UNCHANGED vars
  BY <1>9 DEF Lapse, vars
<1>10. CASE \E q \in Requests : Answer(q) \/ \E u \in Tabs :
                SendRenewing(q, u) \/ \E x \in Clients : Send(q, u, x)
  <2>1. ASSUME NEW u \in Tabs, SendRenewing(r, u)
        PROVE  /\ req'[r].tab \in Tabs /\ req'[r].client \in Clients
               /\ (InFlight(req[r].tab, req[r].client) # {})'
    BY <2>1, <1>8
  <2> QED
    BY <1>5, <1>6, <1>7, <1>10, <2>1
<1> QED
  BY <1>3, <1>4, <1>9, <1>10 DEF Next

LEMMA InitForgotten == Init => NobodyIsForgotten
  BY DEF Init, NobodyIsForgotten, Ended

LEMMA NextForgotten == IInv /\ NobodyIsForgotten /\ [Next]_vars => NobodyIsForgotten'
<1> SUFFICES ASSUME IInv, NobodyIsForgotten, [Next]_vars, NEW r \in Requests,
                    req'[r].at \in {"before", "waiting"}
             PROVE  (InFlight(req[r].tab, req[r].client) # {})'
  BY DEF NobodyIsForgotten
<1>1. req \in [Requests -> Calls]
  BY DEF IInv, TypeOK
<1>2. CASE req[r].at = "ended"
  BY <1>2, NewSteps DEF Finished
<1>3. CASE req[r].at # "ended"
  <2>1. req[r].at \in UnderWay /\ req[r].tab \in Tabs /\ req[r].client \in Clients
        /\ req[r].retried \in BOOLEAN
    BY <1>3, CallFacts DEF IInv
  <2>2. PICK t \in Tabs, c \in Clients, at \in UnderWay : Call(r, t, c, at)
    BY <2>1 DEF Call
  <2>3. CASE at \in {"before", "waiting"}
    <3>1. InFlight(t, c) # {}
      BY <2>2, <2>3 DEF Call, NobodyIsForgotten
    <3>2. ~Reload(t) /\ ~Taken(t, c) /\ Call(r, t, c, at)'
      BY <2>2, <2>3, WaiterSteps DEF Finished, First, Again, Call
    <3>3. Pends(t, c)' \/ Heard(t, c)'
      BY <3>1, <3>2, RenewalSteps, UnderWaySplit
    <3>4. (InFlight(t, c) # {})'
      BY <3>3 DEF Pends, Heard
    <3> QED
      BY <3>2, <3>4 DEF Call
  <2>4. CASE at \in {"sent", "fine", "unauthorized"}
    <3>1. Answer(r)
      BY <2>2, <2>4, OtherSteps DEF Call, Finished
    <3>2. First(r, t, c, at) \/ Again(r, t, c, at)
      BY <2>2 DEF First, Again
    <3>3. Call(r, t, c, "waiting")' /\ (InFlight(t, c) # {})'
      BY <2>2, <2>4, <3>1, <3>2, AnswerSteps DEF Call, First, Again, Finished
    <3> QED
      BY <3>3 DEF Call
  <2> QED
    BY <2>3, <2>4 DEF UnderWay
<1> QED
  BY <1>2, <1>3

\* No call that waits for the renewal of another is left without one, whatever
\* the interleaving of answers, failures and reloads.
THEOREM NobodyForgotten == Spec => []NobodyIsForgotten
  BY InitForgotten, NextForgotten, Invariant, PTL DEF Spec

-----------------------------------------------------------------------------
(* Every call ends *)

PendsFor(r, t, c, at) == Call(r, t, c, at) /\ Pends(t, c)
HeardFor(r, t, c, at) == Call(r, t, c, at) /\ Heard(t, c)

LEMMA SentEnds ==
    ASSUME NEW r \in Requests, NEW t \in Tabs, NEW c \in Clients
    PROVE  []IInv /\ [][Next]_vars /\ []StepsAreEnabled /\ WF_vars(Answer(r)) =>
             /\ Call(r, t, c, "fine") ~> Finished(r)
             /\ Again(r, t, c, "unauthorized") ~> Finished(r)
             /\ Again(r, t, c, "sent") ~>
                   (Finished(r) \/ Call(r, t, c, "fine") \/ Again(r, t, c, "unauthorized"))
             /\ First(r, t, c, "unauthorized") ~>
                   (Finished(r) \/ PendsFor(r, t, c, "waiting") \/ HeardFor(r, t, c, "waiting"))
             /\ First(r, t, c, "sent") ~>
                   (Finished(r) \/ Call(r, t, c, "fine") \/ First(r, t, c, "unauthorized"))
<1>1. /\ StepsAreEnabled /\ Call(r, t, c, "fine") => CanAnswer(r)
      /\ StepsAreEnabled /\ Again(r, t, c, "unauthorized") => CanAnswer(r)
      /\ StepsAreEnabled /\ Again(r, t, c, "sent") => CanAnswer(r)
      /\ StepsAreEnabled /\ First(r, t, c, "unauthorized") => CanAnswer(r)
      /\ StepsAreEnabled /\ First(r, t, c, "sent") => CanAnswer(r)
  BY DEF StepsAreEnabled, Call, Again, First
<1>2. IInv /\ [Next]_vars /\ ~Answer(r) =>
        /\ Call(r, t, c, "fine") => Call(r, t, c, "fine")' \/ Finished(r)'
        /\ Again(r, t, c, "unauthorized") => Again(r, t, c, "unauthorized")' \/ Finished(r)'
        /\ Again(r, t, c, "sent") => Again(r, t, c, "sent")' \/ Finished(r)'
        /\ First(r, t, c, "unauthorized") => First(r, t, c, "unauthorized")' \/ Finished(r)'
        /\ First(r, t, c, "sent") => First(r, t, c, "sent")' \/ Finished(r)'
  BY OtherSteps DEF Call, First, Again
<1>3. IInv /\ Answer(r) =>
        /\ Call(r, t, c, "fine") => Finished(r)'
        /\ Again(r, t, c, "unauthorized") => Finished(r)'
        /\ Again(r, t, c, "sent") => Call(r, t, c, "fine")' \/ Again(r, t, c, "unauthorized")'
        /\ First(r, t, c, "unauthorized") =>
              Finished(r)' \/ PendsFor(r, t, c, "waiting")' \/ HeardFor(r, t, c, "waiting")'
        /\ First(r, t, c, "sent") => Call(r, t, c, "fine")' \/ First(r, t, c, "unauthorized")'
  <2>1. (InFlight(t, c) # {})' => Pends(t, c)' \/ Heard(t, c)'
    BY DEF Pends, Heard
  <2> QED
    BY <2>1, AnswerSteps DEF PendsFor, HeardFor
<1> QED
  BY <1>1, <1>2, <1>3, PTL DEF CanAnswer

\* What becomes of a call that waits: its first attempt, or its second.
Resumed(r, t, c, at) ==
    \/ Finished(r)
    \/ at = "before" /\ First(r, t, c, "sent")
    \/ at = "waiting" /\ Again(r, t, c, "sent")

WaitEnds(r, t, c, at) ==
    []IInv /\ [][Next]_vars /\ []StepsAreEnabled /\ WF_vars(SettleOf(t, c)) =>
        /\ PendsFor(r, t, c, at) ~> (Resumed(r, t, c, at) \/ HeardFor(r, t, c, at))
        /\ HeardFor(r, t, c, at) ~> Resumed(r, t, c, at)

LEMMA WaitsEnd ==
    ASSUME NEW r \in Requests, NEW t \in Tabs, NEW c \in Clients, NEW at \in {"before", "waiting"}
    PROVE  WaitEnds(r, t, c, at)
<1>1. StepsAreEnabled /\ (PendsFor(r, t, c, at) \/ HeardFor(r, t, c, at)) => CanSettle(t, c)
  BY UnderWaySplit DEF StepsAreEnabled, PendsFor, HeardFor
<1>2. IInv /\ [Next]_vars /\ Call(r, t, c, at) /\ (Reload(t) \/ Taken(t, c)) =>
        Resumed(r, t, c, at)'
  BY WaiterSteps DEF Resumed
<1>3. IInv /\ [Next]_vars /\ ~Reload(t) /\ ~Taken(t, c) =>
        /\ PendsFor(r, t, c, at) => PendsFor(r, t, c, at)' \/ HeardFor(r, t, c, at)'
        /\ HeardFor(r, t, c, at) => HeardFor(r, t, c, at)'
  BY WaiterSteps, RenewalSteps DEF PendsFor, HeardFor
<1>4. IInv /\ SettleOf(t, c) =>
        /\ PendsFor(r, t, c, at) => HeardFor(r, t, c, at)'
        /\ HeardFor(r, t, c, at) => Taken(t, c)
  BY SettleSteps DEF PendsFor, HeardFor, Call
<1>5. /\ PendsFor(r, t, c, at) => Call(r, t, c, at)
      /\ HeardFor(r, t, c, at) => Call(r, t, c, at)
  BY DEF PendsFor, HeardFor
<1> QED
  BY <1>1, <1>2, <1>3, <1>4, <1>5, PTL DEF CanSettle, WaitEnds

\* A call of a client of a tab is at one of seven stages.
LEMMA Stages ==
    ASSUME IInv, NobodyIsForgotten, NEW r \in Requests, NEW t \in Tabs, NEW c \in Clients,
           req[r].at \in UnderWay, req[r].tab = t, req[r].client = c
    PROVE  \/ Call(r, t, c, "fine")
           \/ First(r, t, c, "unauthorized") \/ Again(r, t, c, "unauthorized")
           \/ First(r, t, c, "sent") \/ Again(r, t, c, "sent")
           \/ PendsFor(r, t, c, "before") \/ HeardFor(r, t, c, "before")
           \/ PendsFor(r, t, c, "waiting") \/ HeardFor(r, t, c, "waiting")
<1>1. CASE req[r].at \in {"before", "waiting"}
  <2>1. InFlight(t, c) # {}
    BY <1>1 DEF NobodyIsForgotten
  <2> QED
    BY <1>1, <2>1 DEF PendsFor, HeardFor, Call, Pends, Heard
<1>2. CASE req[r].at \in {"sent", "fine", "unauthorized"}
  BY <1>2 DEF Call, First, Again
<1> QED
  BY <1>1, <1>2 DEF UnderWay

\* The call of one client ends.
Of(r, t, c) == req[r].at \in UnderWay /\ req[r].tab = t /\ req[r].client = c
Ends(r, t, c) == FairSpec /\ []StepsAreEnabled => (Of(r, t, c) ~> Finished(r))

LEMMA EachEnds ==
    ASSUME NEW r \in Requests, NEW t \in Tabs, NEW c \in Clients
    PROVE  Ends(r, t, c)
<1>1. FairSpec => Spec /\ FairAnswer(r) /\ FairRenewal(t, c)
  BY DEF FairSpec
<1>2. Spec => [][Next]_vars
  BY PTL DEF Spec
<1>3. FairAnswer(r) => WF_vars(Answer(r))
  BY PTL DEF FairAnswer
<1>4. FairRenewal(t, c) => WF_vars(SettleOf(t, c))
  BY PTL DEF FairRenewal
<1>5. IInv /\ NobodyIsForgotten /\ Of(r, t, c) =>
        \/ Call(r, t, c, "fine")
        \/ First(r, t, c, "unauthorized") \/ Again(r, t, c, "unauthorized")
        \/ First(r, t, c, "sent") \/ Again(r, t, c, "sent")
        \/ PendsFor(r, t, c, "before") \/ HeardFor(r, t, c, "before")
        \/ PendsFor(r, t, c, "waiting") \/ HeardFor(r, t, c, "waiting")
  BY Stages DEF Of
<1>6. WaitEnds(r, t, c, "before") /\ WaitEnds(r, t, c, "waiting")
  BY WaitsEnd
<1>7. /\ Resumed(r, t, c, "before") => Finished(r) \/ First(r, t, c, "sent")
      /\ Resumed(r, t, c, "waiting") => Finished(r) \/ Again(r, t, c, "sent")
  BY DEF Resumed
<1> QED
  BY <1>1, <1>2, <1>3, <1>4, <1>5, <1>6, <1>7, SentEnds, Invariant, NobodyForgotten, PTL
     DEF Ends, WaitEnds

\* RequestsSettle, from the fairness of the browser and the server alone: the
\* calls that meet 401 wait for one renewal, and each of them ends, in two
\* attempts at the most.  The hypothesis, that the fair steps are enabled where
\* they should be, is half of CallsGoOn, of which TLC checks all.
THEOREM CallsEnd == FairSpec /\ []StepsAreEnabled => RequestsSettle
<1> SUFFICES ASSUME NEW r \in Requests, NEW t \in Tabs
             PROVE  FairSpec /\ []StepsAreEnabled => Settles(r, t)
  BY DEF RequestsSettle
<1>1. ASSUME NEW c \in {"api", "enterprise"} PROVE Ends(r, t, c)
  <2>1. CASE c \in Clients
    BY <2>1, EachEnds
  <2>2. CASE c \notin Clients
    <3>1. IInv => ~Of(r, t, c)
      BY <2>2, CallFacts DEF IInv, Of, UnderWay
    <3>2. FairSpec => Spec
      BY DEF FairSpec
    <3> QED
      BY <3>1, <3>2, Invariant, PTL DEF Ends
  <2> QED
    BY <2>1, <2>2
<1>2. Ends(r, t, "api") /\ Ends(r, t, "enterprise")
  BY <1>1
<1>3. IInv /\ (req[r].at \in UnderWay /\ req[r].tab = t) =>
        Of(r, t, "api") \/ Of(r, t, "enterprise")
  BY CallFacts, BrowserSessionAssumption DEF IInv, Of, UnderWay
<1>4. Finished(r) <=> (req[r].at = "ended")
  BY DEF Finished
<1>5. FairSpec => Spec
  BY DEF FairSpec
<1> QED
  BY <1>2, <1>3, <1>4, <1>5, Invariant, PTL DEF Ends, Settles
=============================================================================
