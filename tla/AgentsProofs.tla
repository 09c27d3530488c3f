---------------------------- MODULE AgentsProofs ----------------------------
(***************************************************************************)
(* What is proved of the parts of MCAgents, for every value of their       *)
(* constants.  Of CodexSession: RequestInv holds always; FileInv as long   *)
(* as nobody saves beside another and nothing is lost: then the one who    *)
(* saves has the temporary file for himself, and the file is the text of a *)
(* pair the service accepts, unless it takes that no more and the          *)
(* successor is on the way.                                                *)
(***************************************************************************)
EXTENDS MCAgents, FiniteSetTheorems, SequenceTheorems, TLAPS

-----------------------------------------------------------------------------
(* The session with Codex: its invariant *)

Places == {"idle", "refresh", "open", "write", "replace", "send"}
InFlight == [at: Places, pair: Nat, attempt: {1, 2}, inode: Nat, refused: SUBSET Nat,
             rotated: BOOLEAN]

SessionType ==
    /\ issued \in 1 .. MaxPairs /\ fresh \subseteq 1 .. issued /\ mishap \in BOOLEAN
    /\ cells \in Seq(Seq(Nat)) /\ \A i \in 1 .. Len(cells) : cells[i] \in Seq(1 .. issued)
    /\ file \in 0 .. Len(cells) /\ temp \in 0 .. Len(cells)
    /\ caller \in [Codex!Callers -> InFlight]

\* What a caller has in hand: a pair that was issued, and an open file
InHand(c) ==
    /\ caller[c].pair <= issued /\ caller[c].inode <= Len(cells)
    /\ caller[c].refused \subseteq 1 .. issued
    /\ caller[c].at # "idle" => caller[c].pair # 0
    /\ caller[c].at \in {"write", "replace"} => caller[c].inode # 0
    /\ caller[c].at \in {"refresh", "send"} => c \in Threads
    /\ caller[c].attempt = 1 => caller[c].refused = {}
    /\ caller[c].at \in {"open", "write", "replace", "send"} =>
         caller[c].pair \notin caller[c].refused
RequestInv == \A c \in Codex!Callers : InHand(c)

Renewing(c) == caller[c].at \in {"open", "write", "replace"}
Writing(c) == caller[c].at \in {"write", "replace"}

\* The service takes what the file holds no more
Replacing(c) == Renewing(c) /\ caller[c].rotated

\* What the one who saves finds
HasTemp(c) ==
    /\ Renewing(c) => caller[c].pair \in fresh
    /\ Writing(c) => temp # 0 /\ caller[c].inode = temp
    /\ caller[c].at = "write" => cells[temp] = <<>>
    /\ caller[c].at = "replace" => cells[temp] = Codex!TextOf(caller[c].pair)
Accepted == \E p \in fresh : cells[file] = Codex!TextOf(p)

FileInv ==
    /\ \A c, d \in Codex!Callers : Codex!Saving(c) /\ Codex!Saving(d) => c = d
    /\ temp # 0 => temp # file
    /\ \A c \in Codex!Callers : HasTemp(c)
    /\ file # 0 /\ (\A c \in Codex!Callers : ~Replacing(c)) => Accepted

SessionInv == SessionType /\ RequestInv /\ (~mishap => FileInv)

-----------------------------------------------------------------------------
(* Texts *)

LEMMA Texts ==
    ASSUME SessionBounds, NEW p \in 1 .. MaxPairs
    PROVE  /\ Codex!TextOf(p) \in Seq(Nat) /\ Codex!TextOf(p) \in Seq(1 .. p) /\ Len(Codex!TextOf(p)) = Sizes[p]
           /\ Codex!TextOf(p) # <<>> /\ Head(Codex!TextOf(p)) = p
<1>1. Sizes[p] \in Nat \ {0}
  BY DEF SessionBounds
<1>2. Codex!TextOf(p) \in Seq(Nat) /\ Codex!TextOf(p) \in Seq(1 .. p) /\ Len(Codex!TextOf(p)) = Sizes[p]
  BY <1>1 DEF Codex!TextOf
<1>3. Codex!TextOf(p)[1] = p /\ 1 \in 1 .. Sizes[p]
  BY <1>1 DEF Codex!TextOf
<1>4. Codex!TextOf(p) # <<>>
  BY <1>1, <1>2
<1>5. Head(Codex!TextOf(p)) = Codex!TextOf(p)[1]
  BY <1>2, <1>4
<1> QED BY <1>2, <1>3, <1>4, <1>5

LEMMA Overlaying ==
    ASSUME SessionBounds, NEW n \in 1 .. MaxPairs, NEW text \in Seq(1 .. n), NEW old \in Seq(1 .. n)
    PROVE  /\ Codex!Overlaid(old, text) \in Seq(1 .. n)
           /\ old = <<>> => Codex!Overlaid(old, text) = text
<1>1. SubSeq(old, Len(text) + 1, Len(old)) \in Seq(1 .. n) /\ Len(text) \in Nat
  OBVIOUS
<1>2. Codex!Overlaid(old, text) \in Seq(1 .. n)
  BY <1>1 DEF Codex!Overlaid
<1>3. ASSUME old = <<>>
      PROVE  Codex!Overlaid(old, text) = text
  <2>1. SubSeq(old, Len(text) + 1, Len(old)) = <<>>
    BY <1>1, <1>3
  <2>2. text \o <<>> = text
    BY ConcatEmptySeq
  <2> QED BY <2>1, <2>2 DEF Codex!Overlaid
<1> QED BY <1>2, <1>3

-----------------------------------------------------------------------------
(* Where a caller goes *)

LEMMA Going ==
    ASSUME SessionType, NEW c \in Codex!Callers, NEW now \in InFlight, Codex!Goes(c, now)
    PROVE  /\ caller' \in [Codex!Callers -> InFlight] /\ caller'[c] = now
           /\ \A d \in Codex!Callers \ {c} : caller'[d] = caller[d]
           /\ mishap' \in BOOLEAN /\ (mishap => mishap')
           /\ ~mishap' => \A d \in Codex!Callers \ {c} : ~(Codex!Saving(c)' /\ Codex!Saving(d))
<1>1. caller' = [caller EXCEPT ![c] = now]
      /\ mishap' = (mishap \/ \E d \in Codex!Callers \ {c} : Codex!Saving(c)' /\ Codex!Saving(d))
  BY DEF Codex!Goes
<1>2. caller' \in [Codex!Callers -> InFlight] /\ caller'[c] = now /\ \A d \in Codex!Callers \ {c} : caller'[d] = caller[d]
  BY <1>1 DEF SessionType
<1>3. mishap' \in BOOLEAN /\ (mishap => mishap')
      /\ (~mishap' => \A d \in Codex!Callers \ {c} : ~(Codex!Saving(c)' /\ Codex!Saving(d)))
  BY <1>1 DEF SessionType
<1> QED BY <1>2, <1>3

\* Everyone else has in hand what he had.
LEMMA OthersInHand ==
    ASSUME SessionType, RequestInv, NEW c \in Codex!Callers, issued' \in Nat, issued <= issued',
           Len(cells') \in Nat, Len(cells) <= Len(cells'), caller' \in [Codex!Callers -> InFlight],
           \A d \in Codex!Callers \ {c} : caller'[d] = caller[d], InHand(c)'
    PROVE  RequestInv'
<1> SUFFICES ASSUME NEW d \in Codex!Callers \ {c} PROVE InHand(d)'
  BY DEF RequestInv
<1>1. InHand(d) /\ caller'[d] = caller[d] /\ caller[d] \in InFlight
  BY DEF RequestInv, SessionType
<1>2. issued \in Nat /\ Len(cells) \in Nat
  BY DEF SessionType
<1> QED BY <1>1, <1>2 DEF InHand, InFlight

\* Nobody saves beside another
LEMMA OneSaves ==
    ASSUME SessionType, NEW c \in Codex!Callers, \A d, e \in Codex!Callers : Codex!Saving(d) /\ Codex!Saving(e) => d = e,
           \A d \in Codex!Callers \ {c} : caller'[d] = caller[d],
           \A d \in Codex!Callers \ {c} : ~(Codex!Saving(c)' /\ Codex!Saving(d))
    PROVE  \A d, e \in Codex!Callers : (Codex!Saving(d) /\ Codex!Saving(e) => d = e)'
BY DEF Codex!Saving

LEMMA SessionBegins == ASSUME SessionBounds, Codex!SessionInit PROVE SessionInv
<1>1. 1 \in 1 .. MaxPairs /\ Codex!TextOf(1) \in Seq(1 .. 1) /\ Codex!TextOf(1) \in Seq(Nat)
  BY Texts DEF SessionBounds
<1>2. cells = <<Codex!TextOf(1)>> /\ Len(cells) = 1 /\ cells[1] = Codex!TextOf(1) /\ cells \in Seq(Seq(Nat))
  <2>1. cells = <<Codex!TextOf(1)>>
    BY DEF Codex!SessionInit
  <2> HIDE DEF Codex!TextOf
  <2> QED BY <1>1, <2>1
<1>3. caller \in [Codex!Callers -> InFlight] /\ \A c \in Codex!Callers : caller[c] = Codex!Idle
  BY DEF Codex!SessionInit, Codex!Idle, InFlight, Places, Codex!Nobody
<1>4. SessionType
  <2>1. issued = 1 /\ fresh = {1} /\ mishap = FALSE /\ file = 1 /\ temp = 0
    BY DEF Codex!SessionInit
  <2>2. MaxPairs \in Nat \ {0} /\ \A i \in 1 .. Len(cells) : cells[i] \in Seq(1 .. issued)
    BY <1>1, <1>2, <2>1 DEF SessionBounds
  <2>3. issued \in 1 .. MaxPairs /\ fresh \subseteq 1 .. issued
    BY <2>1, <2>2
  <2>4. file \in 0 .. Len(cells) /\ temp \in 0 .. Len(cells)
    BY <1>2, <2>1
  <2> QED BY <1>2, <1>3, <2>1, <2>2, <2>3, <2>4 DEF SessionType
<1>5. RequestInv
  BY <1>2, <1>3 DEF Codex!SessionInit, RequestInv, InHand, Codex!Idle, Codex!Nobody
<1>6. FileInv
  BY <1>2, <1>3 DEF Codex!SessionInit, FileInv, HasTemp, Accepted, Renewing, Writing, Codex!Saving, Codex!Idle
<1> QED BY <1>4, <1>5, <1>6 DEF SessionInv

-----------------------------------------------------------------------------
(* The steps that leave the files alone *)

\* A caller that is not saving, before or after, disturbs nobody's file.
LEMMA Aside ==
    ASSUME SessionInv, NEW c \in Codex!Callers, NEW now \in InFlight, Codex!Goes(c, now),
           UNCHANGED <<file, temp, cells, issued, fresh>>, InHand(c)',
           ~Renewing(c), now.at \in {"idle", "send", "refresh"}
    PROVE  SessionInv'
<1>1. /\ caller' \in [Codex!Callers -> InFlight] /\ caller'[c] = now
      /\ \A d \in Codex!Callers \ {c} : caller'[d] = caller[d]
      /\ mishap' \in BOOLEAN /\ (mishap => mishap')
      /\ ~mishap' => \A d \in Codex!Callers \ {c} : ~(Codex!Saving(c)' /\ Codex!Saving(d))
  BY Going DEF SessionInv
<1>2. SessionType'
  BY <1>1 DEF SessionInv, SessionType
<1>3. RequestInv'
  <2>1. SessionType /\ RequestInv /\ issued' = issued /\ cells' = cells
    BY DEF SessionInv
  <2>2. issued \in Nat /\ Len(cells) \in Nat
    BY <2>1 DEF SessionType
  <2> QED BY <1>1, <2>1, <2>2, OthersInHand
<1>4. ASSUME ~mishap' PROVE FileInv'
  <2>1. FileInv
    BY <1>1, <1>4 DEF SessionInv
  <2>2. \A d, e \in Codex!Callers : (Codex!Saving(d) /\ Codex!Saving(e) => d = e)'
    <3>1. \A d, e \in Codex!Callers : Codex!Saving(d) /\ Codex!Saving(e) => d = e
      BY <2>1 DEF FileInv
    <3> QED BY <1>1, <1>4, <3>1, OneSaves DEF SessionInv
  <2>3. \A d \in Codex!Callers : (Renewing(d)' <=> Renewing(d)) /\ (Writing(d)' <=> Writing(d))
    BY <1>1 DEF Renewing, Writing
  <2>4. \A d \in Codex!Callers : HasTemp(d)'
    <3> SUFFICES ASSUME NEW d \in Codex!Callers PROVE HasTemp(d)'
      OBVIOUS
    <3>1. CASE d = c
      BY <1>1, <2>3, <3>1 DEF HasTemp, Renewing, Writing
    <3>2. CASE d # c
      BY <1>1, <2>1, <3>2 DEF FileInv, HasTemp, Renewing, Writing
    <3> QED BY <3>1, <3>2
  <2>5. (Accepted' <=> Accepted) /\ file' = file /\ temp' = temp
    BY DEF Accepted, Codex!TextOf
  <2>6. \A d \in Codex!Callers : Replacing(d) => Replacing(d)'
    BY <1>1, <2>3 DEF Replacing, Renewing
  <2> QED BY <2>1, <2>2, <2>4, <2>5, <2>6 DEF FileInv
<1> QED BY <1>2, <1>3, <1>4 DEF SessionInv

LEMMA EndKeeps ==
    ASSUME SessionInv, NEW c \in Codex!Callers, NEW outcome, Codex!End(c, outcome), ~Renewing(c),
           UNCHANGED <<file, temp, cells, issued, fresh>>
    PROVE  SessionInv'
<1>1. Codex!Idle \in InFlight /\ Codex!Idle.at = "idle"
  BY DEF Codex!Idle, InFlight, Places, Codex!Nobody
<1>2. caller'[c] = Codex!Idle
  BY <1>1, Going DEF Codex!End, SessionInv
<1>3. issued' \in Nat /\ Len(cells') \in Nat
  BY DEF SessionInv, SessionType
<1>4. InHand(c)'
  BY <1>2, <1>3 DEF InHand, Codex!Idle, Codex!Nobody
<1> QED BY <1>1, <1>4, Aside DEF Codex!End

LEMMA LoadKeeps == ASSUME SessionBounds, SessionInv, NEW c \in Codex!Callers, Codex!Load(c) PROVE SessionInv'
<1>1. /\ c \in Threads /\ caller[c] \in InFlight /\ caller[c].at = "idle" /\ InHand(c) /\ ~Renewing(c)
      /\ issued \in Nat /\ Len(cells) \in Nat
      /\ UNCHANGED <<file, temp, cells, issued, live, fresh, stale>>
  BY DEF Codex!Load, SessionInv, SessionType, RequestInv, Renewing
<1>2. CASE ~Codex!Readable(file)
  BY <1>1, <1>2, EndKeeps DEF Codex!Load
<1>3. CASE Codex!Readable(file)
  <2> DEFINE pair == Head(cells[file])
             now == [caller[c] EXCEPT !.pair = pair,
                                      !.at = IF Codex!NeedsRefresh(c, pair) THEN "refresh" ELSE "send"]
  <2>1. Codex!Goes(c, now)
    BY <1>1, <1>3 DEF Codex!Load
  <2>2. pair \in 1 .. issued
    <3>1. file \in 1 .. Len(cells) /\ cells[file] \in Seq(1 .. issued) /\ cells[file] # <<>>
      BY <1>3 DEF SessionInv, SessionType, Codex!Readable
    <3> QED BY <3>1, HeadTailProperties
  <2>3. now \in InFlight
    <3> DEFINE place == IF Codex!NeedsRefresh(c, pair) THEN "refresh" ELSE "send"
    <3>1. place \in Places /\ pair \in Nat
      BY <1>1, <2>2 DEF Places
    <3> HIDE DEF place, pair
    <3>2. [caller[c] EXCEPT !.pair = pair, !.at = place] \in InFlight
      BY <1>1, <3>1 DEF InFlight
    <3> QED BY <3>2 DEF place
  <2>4. caller'[c] = now
    BY <2>1, <2>3, Going DEF SessionInv
  <2>5. now.at \in {"refresh", "send"} /\ now.pair = pair /\ now.inode = caller[c].inode
        /\ now.attempt = caller[c].attempt /\ now.refused = caller[c].refused
        /\ (now.at = "send" => caller[c].attempt # 2)
    BY <1>1 DEF Codex!NeedsRefresh, InFlight
  <2>6. InHand(c)'
    <3> HIDE DEF now, pair
    <3> QED BY <1>1, <2>2, <2>4, <2>5 DEF InHand, InFlight
  <2> HIDE DEF now
  <2> QED BY <1>1, <2>1, <2>3, <2>5, <2>6, Aside
<1> QED BY <1>2, <1>3

LEMMA SendKeeps == ASSUME SessionInv, NEW c \in Codex!Callers, Codex!Send(c) PROVE SessionInv'
<1>1. /\ caller[c] \in InFlight /\ caller[c].at = "send" /\ InHand(c) /\ ~Renewing(c)
      /\ issued \in Nat /\ Len(cells) \in Nat
      /\ UNCHANGED <<file, temp, cells, issued, live, fresh, stale>>
  BY DEF Codex!Send, SessionInv, SessionType, RequestInv, Renewing
<1>2. ASSUME NEW outcome, Codex!End(c, outcome) PROVE SessionInv'
  BY <1>1, <1>2, EndKeeps
<1>3. CASE Codex!Goes(c, Codex!Again(c))
  <2> DEFINE now == Codex!Again(c)
  <2>1. now \in InFlight /\ now.at = "idle" /\ now.attempt = 2 /\ now.inode = caller[c].inode
        /\ now.pair = caller[c].pair /\ now.refused = caller[c].refused \cup {caller[c].pair}
    BY <1>1 DEF InFlight, Places, Codex!Again
  <2> HIDE DEF now
  <2>2. caller'[c] = now
    BY <1>3, <2>1, Going DEF SessionInv, now
  <2>3. InHand(c)'
    BY <1>1, <2>1, <2>2 DEF InHand, InFlight
  <2> QED BY <1>1, <1>3, <2>1, <2>3, Aside DEF now
<1> QED BY <1>2, <1>3 DEF Codex!Send

-----------------------------------------------------------------------------
(* A new pair *)

\* Who has a new pair is the only one who saves, or there was a mishap.
LEMMA Renews ==
    ASSUME SessionInv, NEW c \in Codex!Callers, NEW rotated \in BOOLEAN, ~Renewing(c), Codex!MayIssue, 
           issued' = issued + 1, fresh' \subseteq fresh \cup {issued'}, issued' \in fresh',
           ~rotated => fresh \subseteq fresh',
           Codex!Goes(c, [caller[c] EXCEPT !.at = "open", !.pair = issued', !.rotated = rotated]),
           SessionBounds, UNCHANGED <<file, temp, cells>>
    PROVE  SessionInv'
<1> DEFINE now == [caller[c] EXCEPT !.at = "open", !.pair = issued', !.rotated = rotated]
<1>1. /\ issued \in 1 .. MaxPairs /\ MaxPairs \in Nat /\ issued < MaxPairs /\ issued' \in 1 .. MaxPairs
      /\ caller[c] \in InFlight /\ InHand(c) /\ Len(cells) \in Nat
  BY DEF SessionInv, SessionType, RequestInv, SessionBounds, Codex!MayIssue
<1>2. now \in InFlight /\ now.at = "open" /\ now.pair = issued' /\ now.inode = caller[c].inode
      /\ now.attempt = caller[c].attempt /\ now.refused = caller[c].refused
      /\ now.rotated = rotated
  <2>1. issued' \in Nat /\ "open" \in Places
    BY <1>1 DEF Places
  <2> QED BY <1>1, <2>1 DEF InFlight
<1> HIDE DEF now
<1>3. /\ caller' \in [Codex!Callers -> InFlight] /\ caller'[c] = now
      /\ \A d \in Codex!Callers \ {c} : caller'[d] = caller[d]
      /\ mishap' \in BOOLEAN /\ (mishap => mishap')
      /\ ~mishap' => \A d \in Codex!Callers \ {c} : ~(Codex!Saving(c)' /\ Codex!Saving(d))
  BY <1>2, Going DEF SessionInv, now
<1>4. InHand(c)'
  BY <1>1, <1>2, <1>3 DEF InHand, InFlight
<1>5. RequestInv'
  <2>1. SessionType /\ RequestInv /\ cells' = cells
    BY DEF SessionInv
  <2> QED BY <1>1, <1>3, <1>4, <2>1, OthersInHand
<1>6. SessionType'
  <2>1. \A i \in 1 .. Len(cells) : cells[i] \in Seq(1 .. issued')
    BY <1>1 DEF SessionInv, SessionType
  <2>2. fresh' \subseteq 1 .. issued'
    <3>1. fresh \subseteq 1 .. issued /\ 1 .. issued \subseteq 1 .. issued' /\ issued' \in 1 .. issued'
      BY <1>1 DEF SessionInv, SessionType
    <3> QED BY <3>1
  <2> QED BY <1>1, <1>3, <2>1, <2>2 DEF SessionInv, SessionType
<1>7. ASSUME ~mishap' PROVE FileInv'
  <2>1. FileInv
    BY <1>3, <1>7 DEF SessionInv
  <2>2. \A d \in Codex!Callers \ {c} : ~Codex!Saving(d) /\ ~Codex!Saving(d)' /\ ~Renewing(d)' /\ ~Writing(d)'
    BY <1>2, <1>3, <1>7 DEF Codex!Saving, Renewing, Writing
  <2>3. Renewing(c)' /\ ~Writing(c)' /\ (Replacing(c)' <=> rotated)
    BY <1>2, <1>3 DEF Renewing, Writing, Replacing
  <2>4. file' # 0 /\ ~rotated => Accepted'
    <3>1. \A d \in Codex!Callers : ~Replacing(d)
      BY <2>2 DEF Replacing, Renewing, Codex!Saving
    <3> QED BY <2>1, <3>1 DEF FileInv, Accepted, Codex!TextOf
  <2>5. HasTemp(c)'
    BY <1>2, <1>3, <2>3 DEF HasTemp, Writing
  <2>6. \A d \in Codex!Callers \ {c} : HasTemp(d)'
    BY <2>2 DEF HasTemp, Renewing, Writing, Codex!Saving
  <2>7. temp' # 0 => temp' # file'
    BY <2>1 DEF FileInv
  <2> QED BY <2>2, <2>3, <2>4, <2>5, <2>6, <2>7 DEF FileInv
<1> QED BY <1>5, <1>6, <1>7 DEF SessionInv

\* A new pair that nobody has is a loss, or the one before is still accepted.
LEMMA PairLost ==
    ASSUME SessionBounds, SessionInv, NEW c \in Codex!Callers, NEW rotated \in BOOLEAN,
           caller[c].at = "refresh", Codex!MayIssue, issued' = issued + 1,
           fresh' \subseteq fresh \cup {issued'}, ~rotated => fresh \subseteq fresh',
           Codex!Fails(c, rotated), UNCHANGED <<file, temp, cells>>
    PROVE  SessionInv'
<1>1. /\ issued \in 1 .. MaxPairs /\ MaxPairs \in Nat /\ issued < MaxPairs /\ issued' \in 1 .. MaxPairs
      /\ Len(cells) \in Nat /\ SessionType /\ RequestInv
      /\ Codex!Idle \in InFlight /\ Codex!Idle.at = "idle"
  BY DEF SessionInv, SessionType, SessionBounds, Codex!MayIssue, Codex!Idle, InFlight, Places, Codex!Nobody
<1>2. /\ caller' \in [Codex!Callers -> InFlight] /\ caller'[c] = Codex!Idle
      /\ \A d \in Codex!Callers \ {c} : caller'[d] = caller[d]
      /\ mishap' \in BOOLEAN /\ (~mishap' => ~mishap /\ ~rotated)
  BY <1>1 DEF Codex!Fails, SessionType
<1>3. SessionType'
  <2>1. \A i \in 1 .. Len(cells) : cells[i] \in Seq(1 .. issued')
    BY <1>1 DEF SessionType
  <2>2. fresh' \subseteq 1 .. issued'
    BY <1>1 DEF SessionType
  <2> QED BY <1>1, <1>2, <2>1, <2>2 DEF SessionType
<1>4. InHand(c)'
  BY <1>1, <1>2 DEF InHand, Codex!Idle, Codex!Nobody
<1>5. RequestInv'
  BY <1>1, <1>2, <1>4, OthersInHand
<1>6. ASSUME ~mishap' PROVE FileInv'
  <2>1. FileInv /\ fresh \subseteq fresh'
    BY <1>2, <1>6 DEF SessionInv
  <2>2. \A d \in Codex!Callers \ {c} : ~Codex!Saving(d)
    BY <2>1 DEF FileInv, Codex!Saving
  <2>3. \A d \in Codex!Callers : ~Codex!Saving(d)' /\ ~Renewing(d)' /\ ~Renewing(d)
    BY <1>1, <1>2, <2>2 DEF Codex!Saving, Renewing
  <2>4. \A d \in Codex!Callers : HasTemp(d)' /\ ~Replacing(d)
    BY <2>3 DEF HasTemp, Renewing, Writing, Replacing
  <2>5. file' # 0 => Accepted'
    BY <2>1, <2>4 DEF FileInv, Accepted, Codex!TextOf
  <2> QED BY <2>1, <2>3, <2>4, <2>5 DEF FileInv
<1> QED BY <1>3, <1>5, <1>6 DEF SessionInv

LEMMA RefreshKeeps == ASSUME SessionBounds, SessionInv, NEW c \in Codex!Callers, Codex!Refresh(c) PROVE SessionInv'
<1>1. ~Renewing(c) /\ caller[c].at = "refresh" /\ UNCHANGED <<file, temp, cells, stale>>
  BY DEF Codex!Refresh, Renewing
<1>2. CASE UNCHANGED <<issued, live, fresh>> /\ \E outcome : Codex!End(c, outcome)
  BY <1>1, <1>2, EndKeeps
<1>3. ASSUME NEW rotated \in BOOLEAN, Codex!MayIssue, issued' = issued + 1,
             fresh' = (IF rotated THEN fresh \ {caller[c].pair} ELSE fresh) \cup {issued'},
             \/ Codex!Goes(c, [caller[c] EXCEPT !.at = "open", !.pair = issued', !.rotated = rotated])
             \/ Codex!Fails(c, rotated)
      PROVE  SessionInv'
  <2>1. fresh' \subseteq fresh \cup {issued'} /\ issued' \in fresh' /\ (~rotated => fresh \subseteq fresh')
    BY <1>3
  <2> QED BY <1>1, <1>3, <2>1, Renews, PairLost
<1> QED BY <1>2, <1>3 DEF Codex!Refresh

LEMMA LoginKeeps == ASSUME SessionBounds, SessionInv, Codex!Login PROVE SessionInv'
<1>1. /\ Operator \in Codex!Callers /\ ~Renewing(Operator) /\ Codex!MayIssue /\ issued' = issued + 1
      /\ fresh' = fresh \cup {issued'} /\ UNCHANGED <<file, temp, cells>>
      /\ Codex!Goes(Operator, [caller[Operator] EXCEPT !.at = "open", !.pair = issued', !.rotated = FALSE])
  BY DEF Codex!Login, Renewing, Codex!Callers
<1> QED BY <1>1, Renews

-----------------------------------------------------------------------------
(* Saving *)

\* The files, when nobody saves beside the caller
SavesWell(c, now) ==
    ~mishap' /\ FileInv /\ HasTemp(c) /\ (\A d \in Codex!Callers \ {c} : ~Codex!Saving(d)) =>
      /\ temp' # 0 => temp' # file'
      /\ HasTemp(c)'
      /\ file' # 0 /\ ~(now.at \in {"write", "replace"} /\ now.rotated) => Accepted'

\* As long as the one who saves did not spend what the file holds, it is accepted.
LEMMA StillAccepted ==
    ASSUME FileInv, NEW c \in Codex!Callers, \A d \in Codex!Callers \ {c} : ~Codex!Saving(d)
    PROVE  file # 0 /\ ~caller[c].rotated => Accepted
BY DEF FileInv, Replacing, Renewing, Codex!Saving

LEMMA TextIn ==
    ASSUME SessionBounds, NEW n \in 1 .. MaxPairs, NEW p \in 1 .. n
    PROVE  Codex!TextOf(p) \in Seq(1 .. n)
BY DEF Codex!TextOf, SessionBounds

\* What moving on leaves to show: the hands of the caller, the types of the files,
\* and, while he saves alone, the files themselves.
LEMMA SavingOn ==
    ASSUME SessionInv, NEW c \in Codex!Callers, NEW now \in InFlight, Renewing(c),
           caller' = [caller EXCEPT ![c] = now], mishap' \in BOOLEAN, mishap => mishap',
           issued' = issued, fresh' = fresh, Len(cells) <= Len(cells'),
           cells' \in Seq(Seq(Nat)), \A i \in 1 .. Len(cells') : cells'[i] \in Seq(1 .. issued),
           file' \in 0 .. Len(cells'), temp' \in 0 .. Len(cells'), InHand(c)',
           now.at \in {"idle", "send", "write", "replace"},
           SavesWell(c, now)
    PROVE  SessionInv'
<1>1. /\ caller' \in [Codex!Callers -> InFlight] /\ caller'[c] = now
      /\ \A d \in Codex!Callers \ {c} : caller'[d] = caller[d]
  BY DEF SessionInv, SessionType
<1>2. /\ SessionType /\ RequestInv /\ (~mishap => FileInv) /\ issued \in Nat
      /\ Len(cells) \in Nat /\ Len(cells') \in Nat
  BY DEF SessionInv, SessionType
<1>3. SessionType'
  BY <1>1, <1>2 DEF SessionType
<1>4. RequestInv'
  <2>1. issued' \in Nat /\ issued <= issued'
    BY <1>2
  <2> QED BY <1>1, <1>2, <2>1, OthersInHand
<1>5. ASSUME ~mishap' PROVE FileInv'
  <2>1. ~mishap /\ FileInv /\ HasTemp(c) /\ Codex!Saving(c)
    BY <1>1, <1>2, <1>5 DEF SessionInv, FileInv, Renewing, Codex!Saving
  <2>2. \A d \in Codex!Callers \ {c} : ~Codex!Saving(d)
    BY <2>1 DEF FileInv
  <2>3. \A d \in Codex!Callers \ {c} : ~Codex!Saving(d)' /\ ~Renewing(d)' /\ ~Writing(d)'
    BY <1>1, <2>2 DEF Codex!Saving, Renewing, Writing
  <2>4. /\ temp' # 0 => temp' # file'
        /\ HasTemp(c)'
        /\ file' # 0 /\ ~(now.at \in {"write", "replace"} /\ now.rotated) => Accepted'
    BY <1>5, <2>1, <2>2 DEF SavesWell
  <2>5. \A d \in Codex!Callers : HasTemp(d)'
    BY <2>3, <2>4 DEF HasTemp, Renewing, Writing, Codex!Saving
  <2>6. Replacing(c)' <=> now.at \in {"write", "replace"} /\ now.rotated
    BY <1>1 DEF Replacing, Renewing
  <2> QED BY <2>3, <2>4, <2>5, <2>6 DEF FileInv
<1> QED BY <1>3, <1>4, <1>5 DEF SessionInv

LEMMA OpenKeeps == ASSUME SessionInv, NEW c \in Codex!Callers, Codex!Open(c) PROVE SessionInv'
<1> DEFINE now == [caller[c] EXCEPT !.at = "write", !.inode = temp']
<1>1. /\ caller[c] \in InFlight /\ caller[c].at = "open" /\ InHand(c) /\ Renewing(c)
      /\ issued \in Nat /\ Len(cells) \in Nat /\ UNCHANGED <<file, issued, live, fresh, stale>>
      /\ cells \in Seq(Seq(Nat)) /\ (\A i \in 1 .. Len(cells) : cells[i] \in Seq(1 .. issued))
      /\ file \in 0 .. Len(cells) /\ temp \in 0 .. Len(cells) /\ Codex!Goes(c, now)
      /\ <<>> \in Seq(Nat) /\ <<>> \in Seq(1 .. issued)
  BY DEF Codex!Open, SessionInv, SessionType, RequestInv, Renewing
<1>2. /\ temp' \in 1 .. Len(cells') /\ cells' \in Seq(Seq(Nat)) /\ cells'[temp'] = <<>>
      /\ Len(cells') \in Nat /\ Len(cells) <= Len(cells')
      /\ \A i \in 1 .. Len(cells') : i # temp' => i \in 1 .. Len(cells) /\ cells'[i] = cells[i]
      /\ temp = 0 => temp' \notin 1 .. Len(cells)
  <2>1. CASE temp = 0
    <3>1. temp' = Len(cells) + 1 /\ cells' = Append(cells, <<>>)
      BY <2>1 DEF Codex!Open
    <3> QED BY <1>1, <2>1, <3>1
  <2>2. CASE temp # 0
    <3>1. temp' = temp /\ cells' = [cells EXCEPT ![temp] = <<>>]
      BY <2>2 DEF Codex!Open
    <3> QED BY <1>1, <2>2, <3>1
  <2> QED BY <2>1, <2>2
<1>3. \A i \in 1 .. Len(cells') : cells'[i] \in Seq(1 .. issued)
  BY <1>1, <1>2
<1>4. /\ now \in InFlight /\ now.at = "write" /\ now.inode = temp' /\ now.pair = caller[c].pair
      /\ now.attempt = caller[c].attempt /\ now.refused = caller[c].refused
      /\ now.rotated = caller[c].rotated
  <2>1. temp' \in Nat /\ "write" \in Places
    BY <1>2 DEF Places
  <2> QED BY <1>1, <2>1 DEF InFlight
<1> HIDE DEF now
<1>5. caller'[c] = now
  BY <1>1, <1>4, Going DEF SessionInv
<1>6. /\ temp' \in Nat /\ temp' # 0 /\ temp' <= Len(cells') /\ issued' = issued
      /\ Len(cells) \in Nat /\ Len(cells') \in Nat /\ Len(cells) <= Len(cells')
  <2>1. issued' = issued /\ Len(cells) \in Nat
    BY <1>1
  <2>2. temp' \in 1 .. Len(cells') /\ Len(cells') \in Nat /\ Len(cells) <= Len(cells')
    BY <1>2
  <2> QED BY <2>1, <2>2
<1>7. InHand(c)'
  BY <1>1, <1>4, <1>5, <1>6 DEF InHand, InFlight
<1>8. file' \in 0 .. Len(cells') /\ temp' \in 0 .. Len(cells')
  <2>1. file' \in 0 .. Len(cells)
    BY <1>1
  <2> QED BY <1>6, <2>1
<1>9. SavesWell(c, now)
  <2> SUFFICES ASSUME ~mishap', FileInv, HasTemp(c), \A d \in Codex!Callers \ {c} : ~Codex!Saving(d)
               PROVE  /\ temp' # 0 => temp' # file'
                      /\ HasTemp(c)'
                      /\ file' # 0 /\ ~(now.at \in {"write", "replace"} /\ now.rotated) => Accepted'
    BY DEF SavesWell
  <2>1. file # 0 /\ ~caller[c].rotated => Accepted
    BY StillAccepted
  <2>2. temp # 0 => temp' = temp /\ temp # file
    BY DEF Codex!Open, FileInv
  <2>3. temp' # file' /\ (file # 0 => cells'[file] = cells[file])
    <3>1. file' = file /\ file \in 0 .. Len(cells)
      BY <1>1
    <3>2. temp' # file
      BY <1>1, <1>2, <2>2, <3>1
    <3>3. file # 0 => file \in 1 .. Len(cells')
      BY <1>6, <3>1
    <3> QED BY <1>2, <3>1, <3>2, <3>3
  <2>5. file' # 0 /\ ~now.rotated => Accepted'
    BY <1>1, <1>4, <2>1, <2>3 DEF Accepted, Codex!TextOf
  <2>4. HasTemp(c)'
    <3>1. cells'[temp'] = <<>> /\ caller[c].pair \in fresh' /\ caller'[c].inode = temp'
          /\ caller'[c].at = "write" /\ caller'[c].pair = caller[c].pair
      BY <1>1, <1>2, <1>4, <1>5 DEF HasTemp, Renewing
    <3> QED BY <1>6, <3>1 DEF HasTemp
  <2> QED BY <1>4, <2>3, <2>4, <2>5
<1>10. caller' = [caller EXCEPT ![c] = now] /\ mishap' \in BOOLEAN /\ (mishap => mishap')
  BY <1>1, <1>4, Going DEF SessionInv, Codex!Goes
<1> QED BY <1>1, <1>2, <1>3, <1>4, <1>7, <1>8, <1>9, <1>10, SavingOn

LEMMA WriteKeeps == ASSUME SessionBounds, SessionInv, NEW c \in Codex!Callers, Codex!Write(c) PROVE SessionInv'
<1> DEFINE now == [caller[c] EXCEPT !.at = "replace"]
           inode == caller[c].inode
           pair == caller[c].pair
           text == Codex!Overlaid(cells[inode], Codex!TextOf(pair))
<1>1. /\ caller[c] \in InFlight /\ caller[c].at = "write" /\ InHand(c) /\ Renewing(c)
      /\ issued \in 1 .. MaxPairs /\ Len(cells) \in Nat
      /\ UNCHANGED <<file, temp, issued, live, fresh, stale>>
      /\ cells \in Seq(Seq(Nat)) /\ (\A i \in 1 .. Len(cells) : cells[i] \in Seq(1 .. issued))
      /\ file \in 0 .. Len(cells) /\ temp \in 0 .. Len(cells) /\ Codex!Goes(c, now)
      /\ cells' = [cells EXCEPT ![inode] = text]
  BY DEF Codex!Write, SessionInv, SessionType, RequestInv, Renewing
<1>2. inode \in 1 .. Len(cells) /\ pair \in 1 .. issued /\ issued \in Nat /\ MaxPairs \in Nat
  BY <1>1 DEF InHand, InFlight, SessionBounds
<1>3. text \in Seq(1 .. issued) /\ (cells[inode] = <<>> => text = Codex!TextOf(pair))
  BY <1>1, <1>2, Texts, Overlaying, TextIn
<1> HIDE DEF text
<1>4. text \in Seq(Nat)
  BY <1>2, <1>3
<1>5. /\ cells' \in Seq(Seq(Nat)) /\ cells'[inode] = text /\ Len(cells') = Len(cells)
      /\ \A i \in 1 .. Len(cells') : i # inode => cells'[i] = cells[i]
  BY <1>1, <1>2, <1>4
<1>6. \A i \in 1 .. Len(cells') : cells'[i] \in Seq(1 .. issued)
  BY <1>1, <1>3, <1>5
<1>7. /\ now \in InFlight /\ now.at = "replace" /\ now.inode = inode /\ now.pair = pair
      /\ now.attempt = caller[c].attempt /\ now.refused = caller[c].refused
      /\ now.rotated = caller[c].rotated
  BY <1>1 DEF InFlight, Places
<1> HIDE DEF now
<1>8. caller'[c] = now
  BY <1>1, <1>7, Going DEF SessionInv
<1>9. InHand(c)'
  BY <1>1, <1>2, <1>5, <1>7, <1>8 DEF InHand, InFlight
<1>10. SavesWell(c, now)
  <2> SUFFICES ASSUME ~mishap', FileInv, HasTemp(c), \A d \in Codex!Callers \ {c} : ~Codex!Saving(d)
               PROVE  /\ temp' # 0 => temp' # file'
                      /\ HasTemp(c)'
                      /\ file' # 0 /\ ~(now.at \in {"write", "replace"} /\ now.rotated) => Accepted'
    BY DEF SavesWell
  <2>1. temp # 0 /\ inode = temp /\ cells[temp] = <<>> /\ pair \in fresh
    BY <1>1 DEF HasTemp, Renewing, Writing
  <2>2. HasTemp(c)'
    BY <1>1, <1>3, <1>5, <1>7, <1>8, <2>1 DEF HasTemp, Codex!TextOf
  <2>3. temp' # file' /\ (file # 0 => cells'[file] = cells[file])
    BY <1>1, <1>5, <2>1 DEF FileInv
  <2>4. file # 0 /\ ~caller[c].rotated => Accepted
    BY StillAccepted
  <2>5. file' # 0 /\ ~now.rotated => Accepted'
    BY <1>1, <1>7, <2>3, <2>4 DEF Accepted, Codex!TextOf
  <2> QED BY <1>7, <2>2, <2>3, <2>5
<1>11. caller' = [caller EXCEPT ![c] = now] /\ mishap' \in BOOLEAN /\ (mishap => mishap')
  BY <1>1, <1>7, Going DEF SessionInv, Codex!Goes
<1>12. issued' = issued /\ fresh' = fresh /\ Len(cells) <= Len(cells')
     /\ file' \in 0 .. Len(cells') /\ temp' \in 0 .. Len(cells')
  BY <1>1, <1>5
<1> QED BY <1>1, <1>5, <1>6, <1>7, <1>9, <1>10, <1>11, <1>12, SavingOn

LEMMA ReplaceKeeps == ASSUME SessionInv, NEW c \in Codex!Callers, Codex!Replace(c) PROVE SessionInv'
<1>1. /\ caller[c] \in InFlight /\ caller[c].at = "replace" /\ InHand(c) /\ Renewing(c)
      /\ issued \in Nat /\ Len(cells) \in Nat /\ UNCHANGED <<cells, issued, live, fresh, stale>>
      /\ cells \in Seq(Seq(Nat)) /\ (\A i \in 1 .. Len(cells) : cells[i] \in Seq(1 .. issued))
      /\ file \in 0 .. Len(cells) /\ temp \in 0 .. Len(cells)
      /\ Codex!Idle \in InFlight /\ Codex!Idle.at = "idle"
  BY DEF Codex!Replace, SessionInv, SessionType, RequestInv, Renewing, Codex!Idle, InFlight, Places, Codex!Nobody
<1>2. PICK now \in InFlight :
        /\ Codex!Goes(c, now)
        /\ \/ now = Codex!Idle
           \/ /\ c \in Threads /\ now.at = "send" /\ now.inode = caller[c].inode
              /\ now.pair = caller[c].pair /\ now.attempt = caller[c].attempt
              /\ now.refused = caller[c].refused
        /\ \/ temp = 0 /\ UNCHANGED <<file, temp>>
           \/ temp # 0 /\ file' = temp /\ temp' = 0
  <2> DEFINE sent == [caller[c] EXCEPT !.at = "send", !.rotated = FALSE]
  <2>1. /\ sent \in InFlight /\ sent.at = "send" /\ sent.inode = caller[c].inode
        /\ sent.pair = caller[c].pair /\ sent.attempt = caller[c].attempt
        /\ sent.refused = caller[c].refused
    BY <1>1 DEF InFlight, Places
  <2>2. CASE Codex!End(c, "transient")
    BY <1>1, <2>2 DEF Codex!Replace, Codex!End
  <2>3. CASE temp # 0 /\ c # Operator /\ Codex!Goes(c, sent)
    <3>1. Codex!Goes(c, sent) /\ file' = temp /\ temp' = 0 /\ c \in Threads
      BY <2>3 DEF Codex!Replace, Codex!Callers
    <3> HIDE DEF sent
    <3> QED BY <2>1, <2>3, <3>1
  <2> QED BY <2>2, <2>3 DEF Codex!Replace
<1>3. caller'[c] = now
  BY <1>1, <1>2, Going DEF SessionInv
<1>4. InHand(c)'
  <2>1. CASE now = Codex!Idle
    BY <1>1, <1>3, <2>1 DEF InHand, Codex!Idle, Codex!Nobody
  <2>2. CASE now # Codex!Idle
    BY <1>1, <1>2, <1>3, <2>2 DEF InHand
  <2> QED BY <2>1, <2>2
<1>5. file' \in 0 .. Len(cells') /\ temp' \in 0 .. Len(cells') /\ now.at \in {"idle", "send"}
  BY <1>1, <1>2
<1>6. SavesWell(c, now)
  <2> SUFFICES ASSUME ~mishap', FileInv, HasTemp(c), \A d \in Codex!Callers \ {c} : ~Codex!Saving(d)
               PROVE  /\ temp' # 0 => temp' # file'
                      /\ HasTemp(c)'
                      /\ file' # 0 /\ ~(now.at \in {"write", "replace"} /\ now.rotated) => Accepted'
    BY DEF SavesWell
  <2>1. temp # 0 /\ caller[c].pair \in fresh /\ cells[temp] = Codex!TextOf(caller[c].pair)
    BY <1>1 DEF HasTemp, Renewing, Writing
  <2>2. temp' = 0 /\ file' = temp
    BY <1>2, <2>1
  <2>3. Accepted'
    BY <1>1, <2>1, <2>2 DEF Accepted, Codex!TextOf
  <2>4. HasTemp(c)'
    BY <1>3, <1>5 DEF HasTemp, Renewing, Writing
  <2> QED BY <2>2, <2>3, <2>4
<1>7. caller' = [caller EXCEPT ![c] = now] /\ mishap' \in BOOLEAN /\ (mishap => mishap')
  BY <1>2, Going DEF SessionInv, Codex!Goes
<1>8. issued' = issued /\ fresh' = fresh /\ Len(cells) <= Len(cells') /\ cells' = cells
  BY <1>1
<1> QED BY <1>1, <1>2, <1>4, <1>5, <1>6, <1>7, <1>8, SavingOn

\* What a failure leaves of a text is in the temporary file only.
LEMMA SaveFailsKeeps ==
    ASSUME SessionBounds, SessionInv, NEW c \in Codex!Callers, Codex!SaveFails(c) PROVE SessionInv'
<1> DEFINE inode == caller[c].inode
           pair == caller[c].pair
<1>1. /\ caller[c] \in InFlight /\ caller[c].at \in {"open", "write", "replace"} /\ InHand(c) /\ Renewing(c)
      /\ issued \in 1 .. MaxPairs /\ MaxPairs \in Nat /\ Len(cells) \in Nat
      /\ UNCHANGED <<file, temp, issued, live, fresh, stale>>
      /\ cells \in Seq(Seq(Nat)) /\ (\A i \in 1 .. Len(cells) : cells[i] \in Seq(1 .. issued))
      /\ file \in 0 .. Len(cells) /\ temp \in 0 .. Len(cells)
      /\ Codex!Idle \in InFlight /\ Codex!Idle.at = "idle"
      /\ caller' = [caller EXCEPT ![c] = Codex!Idle] /\ mishap' = (mishap \/ caller[c].rotated)
  BY DEF Codex!SaveFails, Codex!Fails, SessionInv, SessionType, RequestInv, Renewing, Codex!Idle, InFlight,
         Places, Codex!Nobody, SessionBounds
<1>2. mishap' \in BOOLEAN /\ (mishap => mishap') /\ (~mishap' => ~caller[c].rotated)
  BY <1>1 DEF SessionInv, SessionType, InFlight
<1>3. /\ cells' \in Seq(Seq(Nat)) /\ Len(cells') = Len(cells)
      /\ \A i \in 1 .. Len(cells') : cells'[i] \in Seq(1 .. issued)
      /\ \A i \in 1 .. Len(cells') : cells'[i] # cells[i] => caller[c].at = "write" /\ i = inode
  <2>1. CASE UNCHANGED cells
    BY <1>1, <2>1
  <2>2. ASSUME caller[c].at = "write", NEW n \in 0 .. (Sizes[pair] - 1),
               cells' = [cells EXCEPT ![inode] = Codex!Overlaid(@, SubSeq(Codex!TextOf(pair), 1, n))]
        PROVE  /\ cells' \in Seq(Seq(Nat)) /\ Len(cells') = Len(cells)
               /\ \A i \in 1 .. Len(cells') : cells'[i] \in Seq(1 .. issued)
               /\ \A i \in 1 .. Len(cells') : cells'[i] # cells[i] => caller[c].at = "write" /\ i = inode
    <3>1. inode \in 1 .. Len(cells) /\ pair \in 1 .. issued /\ Sizes[pair] \in Nat
      <4>1. inode \in Nat /\ inode # 0 /\ inode <= Len(cells) /\ pair \in Nat /\ pair # 0 /\ pair <= issued
        BY <1>1, <2>2 DEF InHand, InFlight
      <4>2. inode \in 1 .. Len(cells) /\ pair \in 1 .. issued /\ pair \in 1 .. MaxPairs
        BY <1>1, <4>1
      <4> QED BY <4>2 DEF SessionBounds
    <3>2. SubSeq(Codex!TextOf(pair), 1, n) \in Seq(1 .. issued)
      <4>1. Codex!TextOf(pair) \in Seq(1 .. issued)
        BY <1>1, <3>1, TextIn
      <4>2. pair \in 1 .. MaxPairs
        BY <1>1, <3>1
      <4>3. Len(Codex!TextOf(pair)) = Sizes[pair]
        BY <4>2, Texts
      <4> DEFINE text == Codex!TextOf(pair)
      <4>4. text \in Seq(1 .. issued) /\ n \in Nat /\ n <= Len(text)
        BY <3>1, <4>1, <4>3
      <4> HIDE DEF text
      <4>5. ASSUME NEW i \in 1 .. n PROVE text[i] \in 1 .. issued
        <5>1. Len(text) \in Nat /\ i \in 1 .. Len(text)
          BY <4>4
        <5> QED BY <4>4, <5>1, ElementOfSeq
      <4>6. SubSeq(text, 1, n) \in Seq(1 .. issued)
        BY <4>4, <4>5, SubSeqProperties
      <4> QED BY <4>6 DEF text
    <3> DEFINE text == Codex!Overlaid(cells[inode], SubSeq(Codex!TextOf(pair), 1, n))
    <3>3. text \in Seq(1 .. issued)
      BY <1>1, <3>1, <3>2, Overlaying
    <3>4. cells' = [cells EXCEPT ![inode] = text]
      BY <2>2
    <3> HIDE DEF text, inode
    <3>5. text \in Seq(Nat)
      BY <1>1, <3>3
    <3> QED BY <1>1, <2>2, <3>1, <3>3, <3>4, <3>5
  <2> QED BY <2>1, <2>2 DEF Codex!SaveFails
<1>4. caller'[c] = Codex!Idle
  BY <1>1 DEF SessionInv, SessionType
<1>5. InHand(c)'
  BY <1>1, <1>3, <1>4 DEF InHand, Codex!Idle, Codex!Nobody
<1>6. SavesWell(c, Codex!Idle)
  <2> SUFFICES ASSUME ~mishap', FileInv, HasTemp(c), \A d \in Codex!Callers \ {c} : ~Codex!Saving(d)
               PROVE  /\ temp' # 0 => temp' # file'
                      /\ HasTemp(c)'
                      /\ file' # 0 => Accepted'
    BY DEF SavesWell
  <2>1. file # 0 => Accepted
    BY <1>2, StillAccepted
  <2>2. caller[c].at = "write" => inode = temp /\ temp # 0
    BY DEF HasTemp, Writing
  <2>3. file # 0 => cells'[file] = cells[file]
    BY <1>1, <1>3, <2>2 DEF FileInv
  <2>4. HasTemp(c)'
    BY <1>1, <1>4 DEF HasTemp, Renewing, Writing
  <2> QED BY <1>1, <2>1, <2>3, <2>4 DEF FileInv, Accepted, Codex!TextOf
<1>7. issued' = issued /\ fresh' = fresh /\ Len(cells) <= Len(cells')
     /\ file' \in 0 .. Len(cells') /\ temp' \in 0 .. Len(cells')
  BY <1>1, <1>3
<1> QED BY <1>1, <1>2, <1>3, <1>5, <1>6, <1>7, SavingOn

-----------------------------------------------------------------------------
(* The operator, time, and a restart *)

LEMMA LogoutKeeps == ASSUME SessionInv, Codex!Logout PROVE SessionInv'
<1>1. SessionType' /\ RequestInv'
  BY DEF Codex!Logout, SessionInv, SessionType, RequestInv, InHand
<1>2. ASSUME ~mishap' PROVE FileInv'
  BY <1>2 DEF Codex!Logout, SessionInv, FileInv, HasTemp, Codex!Saving, Renewing, Writing, Replacing, Codex!TextOf
<1> QED BY <1>1, <1>2 DEF SessionInv

LEMMA OthersKeep ==
    ASSUME SessionInv, UNCHANGED <<file, temp, cells, issued, fresh, caller, mishap>>
    PROVE  SessionInv'
BY DEF SessionInv, SessionType, RequestInv, InHand, FileInv, Accepted, HasTemp, Codex!Saving, Renewing,
       Writing, Replacing, Codex!TextOf

LEMMA RestartKeeps == ASSUME SessionInv, Codex!Restart PROVE SessionInv'
<1>1. Codex!Idle \in InFlight
  BY DEF Codex!Idle, InFlight, Places, Codex!Nobody
<1>2. SessionType'
  BY <1>1 DEF Codex!Restart, SessionInv, SessionType
<1>3. ASSUME NEW c \in Codex!Callers PROVE InHand(c)'
  <2>1. issued \in Nat /\ Len(cells) \in Nat /\ InHand(c)
        /\ (caller'[c] = caller[c] \/ caller'[c] = Codex!Idle) /\ issued' = issued /\ cells' = cells
    BY DEF Codex!Restart, SessionInv, SessionType, RequestInv
  <2>2. CASE caller'[c] = Codex!Idle
    BY <2>1, <2>2 DEF InHand, Codex!Idle, Codex!Nobody
  <2>3. CASE caller'[c] = caller[c]
    BY <2>1, <2>3 DEF InHand
  <2> QED BY <2>1, <2>2, <2>3
<1>4. mishap' = TRUE
  BY DEF Codex!Restart
<1> QED BY <1>2, <1>3, <1>4 DEF SessionInv, RequestInv

LEMMA SessionStep ==
    ASSUME SessionBounds, SessionInv, Codex!SessionNext \/ UNCHANGED Codex!sessionVars PROVE SessionInv'
<1>1. CASE \E c \in Codex!Callers :
             Codex!Load(c) \/ Codex!Refresh(c) \/ Codex!Open(c) \/ Codex!Write(c) \/ Codex!Replace(c) \/ Codex!SaveFails(c)
               \/ Codex!Send(c)
  BY <1>1, LoadKeeps, RefreshKeeps, OpenKeeps, WriteKeeps, ReplaceKeeps, SaveFailsKeeps, SendKeeps
<1>2. CASE Codex!Login \/ Codex!Logout \/ Codex!Restart
  BY <1>2, LoginKeeps, LogoutKeeps, RestartKeeps
<1>3. CASE \E p \in Codex!Pairs : Codex!Expire(p) \/ Codex!Withdraw(p)
  <2>1. UNCHANGED <<file, temp, cells, issued, fresh, caller, mishap>>
    BY <1>3 DEF Codex!Expire, Codex!Withdraw
  <2> QED BY <2>1, OthersKeep
<1>4. CASE UNCHANGED Codex!sessionVars
  <2>1. UNCHANGED <<file, temp, cells, issued, fresh, caller, mishap>>
    BY <1>4 DEF Codex!sessionVars
  <2> QED BY <2>1, OthersKeep
<1> QED BY <1>1, <1>2, <1>3, <1>4 DEF Codex!SessionNext

\* The invariant implies what the session promises.
LEMMA SessionKept ==
    ASSUME SessionBounds, SessionInv PROVE Codex!SessionSurvives /\ Codex!RefusedIsNotSentAgain
<1>1. ASSUME ~mishap, file # 0, \A c \in Codex!Callers : ~Codex!Saving(c)
      PROVE  Codex!Readable(file) /\ Head(cells[file]) \in fresh
  <2>1. Accepted
    BY <1>1 DEF SessionInv, FileInv, Codex!Saving, Renewing, Replacing
  <2>2. PICK p \in fresh : cells[file] = Codex!TextOf(p)
    BY <2>1 DEF Accepted
  <2>3. p \in 1 .. MaxPairs
    BY DEF SessionInv, SessionType, SessionBounds
  <2>4. Head(cells[file]) = p /\ cells[file] # <<>> /\ cells[file] = Codex!TextOf(Head(cells[file]))
    <3>1. Head(Codex!TextOf(p)) = p /\ Codex!TextOf(p) # <<>>
      BY <2>3, Texts
    <3> QED BY <2>2, <3>1
  <2> QED BY <1>1, <2>4 DEF Codex!Readable
<1>2. Codex!RefusedIsNotSentAgain
  BY DEF SessionInv, RequestInv, InHand, Codex!RefusedIsNotSentAgain, Codex!Callers
<1> QED BY <1>1, <1>2 DEF Codex!SessionSurvives

-----------------------------------------------------------------------------
(* The loop of an agent *)

Warnings ==
    {"model", "loop_reply_rewritten", "loop_tool_failed", "loop_no_reply_after_max_steps",
     "loop_reply_softened", "loop_reply_forbidden_expression", "delegated_warning"}
LoopRecord ==
    [phase : {"running", "over"}, step : Nat, observations : Nat, requests : Nat,
     warned : SUBSET Warnings, reply : SUBSET {"plain", "firm"}]

\* A loop with max steps: each step has made a request and has left an observation
LoopFits(l, max) ==
    \/ l = [phase |-> "idle"]
    \/ /\ l \in LoopRecord /\ "firm" \notin l.reply
       /\ l.phase = "running" =>
            /\ l.observations = l.requests /\ l.step = l.requests + 1 /\ l.step <= max + 1
            /\ l.reply = {}
       /\ l.phase = "over" =>
            /\ l.requests = l.observations + 1 /\ l.requests <= max + 1
            /\ (l.reply = {} /\ l.requests > max) => l.warned # {}

Observed(l, warnings) ==
    [l EXCEPT !.step = @ + 1, !.requests = @ + 1, !.observations = @ + 1, !.warned = @ \cup warnings]
Ended(l, text, warnings) ==
    [l EXCEPT !.phase = "over", !.requests = @ + 1, !.reply = text, !.warned = @ \cup warnings]

\* Before the limit a loop observes or ends; at the limit it ends, and says why it has no answer
LoopMoves(l, m, max) ==
    /\ l.phase = "running"
    /\ \/ l.step <= max /\ \E w \in SUBSET Warnings : m = Observed(l, w)
       \/ \E text \in SUBSET {"plain"}, w \in SUBSET Warnings :
            (l.step > max /\ text = {} => w # {}) /\ m = Ended(l, text, w)

LEMMA MovesFit ==
  ASSUME NEW max \in Nat, NEW l, NEW m, LoopFits(l, max), LoopMoves(l, m, max)
  PROVE  LoopFits(m, max)
<1>1. /\ l \in LoopRecord /\ l.phase = "running" /\ l.observations = l.requests
      /\ l.step = l.requests + 1 /\ l.step <= max + 1 /\ l.reply = {}
  BY DEF LoopFits, LoopMoves
<1>2. ASSUME l.step <= max, NEW w \in SUBSET Warnings, m = Observed(l, w) PROVE LoopFits(m, max)
  <2>1. /\ m.phase = "running" /\ m.step = l.step + 1 /\ m.requests = l.requests + 1
        /\ m.observations = l.observations + 1 /\ m.reply = l.reply /\ m.warned = l.warned \cup w
        /\ m = [phase |-> m.phase, step |-> m.step, observations |-> m.observations,
                requests |-> m.requests, warned |-> m.warned, reply |-> m.reply]
    BY <1>1, <1>2 DEF LoopRecord, Observed
  <2>2. m \in LoopRecord
    <3>1. m.step \in Nat /\ m.requests \in Nat /\ m.observations \in Nat BY <1>1, <2>1 DEF LoopRecord
    <3>2. m.warned \in SUBSET Warnings /\ m.reply \in SUBSET {"plain", "firm"} BY <1>1, <2>1 DEF LoopRecord
    <3> QED BY <2>1, <3>1, <3>2 DEF LoopRecord
  <2> QED BY <1>1, <1>2, <2>1, <2>2 DEF LoopFits, LoopRecord
<1>3. ASSUME NEW text \in SUBSET {"plain"}, NEW w \in SUBSET Warnings,
             l.step > max /\ text = {} => w # {}, m = Ended(l, text, w)
      PROVE  LoopFits(m, max)
  <2>1. /\ m \in LoopRecord /\ m.phase = "over" /\ m.requests = l.requests + 1
        /\ m.observations = l.observations /\ m.reply = text /\ m.warned = l.warned \cup w
    BY <1>1, <1>3 DEF LoopRecord, Ended
  <2>2. m.requests <= max + 1 /\ (m.requests > max <=> l.step > max)
    BY <1>1, <2>1 DEF LoopRecord
  <2> QED BY <1>1, <1>3, <2>1, <2>2 DEF LoopFits, LoopRecord
<1> QED BY <1>2, <1>3 DEF LoopMoves

LEMMA ObservedMoves ==
  ASSUME NEW max, NEW l, l.phase = "running", l.step <= max, NEW w \in SUBSET Warnings
  PROVE  LoopMoves(l, Observed(l, w), max)
<1>1. \E v \in SUBSET Warnings : Observed(l, w) = Observed(l, v) OBVIOUS
<1> QED BY <1>1 DEF LoopMoves

LEMMA EndedMoves ==
  ASSUME NEW max, NEW l, l.phase = "running", NEW text \in SUBSET {"plain"}, NEW w \in SUBSET Warnings,
         l.step <= max \/ text # {} \/ w # {}, ~(l.step <= max /\ l.step > max)
  PROVE  LoopMoves(l, Ended(l, text, w), max)
<1>1. (l.step > max /\ text = {} => w # {}) /\ Ended(l, text, w) = Ended(l, text, w) OBVIOUS
<1> QED BY <1>1, Zenon DEF LoopMoves

LEMMA StartFits ==
  ASSUME NEW max \in Nat
  PROVE  LoopFits([phase |-> "running", step |-> 1, observations |-> 0, requests |-> 0,
                   warned |-> {}, reply |-> {}], max)
BY DEF LoopFits, LoopRecord

LEMMA LetterUses ==
  ASSUME NEW tool, NEW w \in SUBSET Warnings, Letter!Uses(tool, w)
  PROVE  LoopMoves(loop, loop', LetterSteps)
<1>1. loop.phase = "running" /\ loop.step <= LetterSteps /\ loop' = Observed(loop, w)
  BY DEF Letter!Uses, Letter!Running, Letter!Observe, Observed
<1> QED BY <1>1, ObservedMoves

LEMMA LetterTalks ==
  ASSUME LoopFits(loop, LetterSteps), Letter!Talks PROVE LoopMoves(loop, loop', LetterSteps)
<1>0. loop.phase = "running" => ~(loop.step <= LetterSteps /\ loop.step > LetterSteps)
  BY AgentsFit DEF LoopFits, LoopRecord
<1>1. CASE Letter!Unavailable
  <2>1. loop.phase = "running" /\ loop' = Ended(loop, {}, {"model"})
    BY <1>1 DEF Letter!Unavailable, Letter!Running, Letter!Over, Letter!NoText, Ended
  <2>2. {"model"} \in SUBSET Warnings /\ {"model"} # {} /\ {} \in SUBSET {"plain"} BY DEF Warnings
  <2> QED BY <2>1, <2>2, <1>0, EndedMoves
<1>2. ASSUME NEW d \in Letter!Decisions, Letter!Answers(d) PROVE LoopMoves(loop, loop', LetterSteps)
  <2>1. d.reply \in SUBSET {"plain", "firm"} BY DEF Letter!Decisions, Letter!Texts
  <2>2. loop.phase = "running" /\ loop.step <= LetterSteps
    BY <1>2 DEF Letter!Answers, Letter!Running
  <2>3. CASE "firm" \in d.reply
    <3>1. loop' = Observed(loop, {"loop_reply_rewritten"})
      BY <1>2, <2>3 DEF Letter!Answers, Letter!Firm, Letter!Observe, Observed
    <3>2. {"loop_reply_rewritten"} \in SUBSET Warnings BY DEF Warnings
    <3> QED BY <2>2, <3>1, <3>2, ObservedMoves
  <2>4. CASE "firm" \notin d.reply
    <3>1. loop' = Ended(loop, d.reply, {})
      BY <1>2, <2>4 DEF Letter!Answers, Letter!Firm, Letter!Over, Ended
    <3>2. d.reply \in SUBSET {"plain"} /\ {} \in SUBSET Warnings BY <2>1, <2>4
    <3> QED BY <2>2, <3>1, <3>2, <1>0, EndedMoves
  <2> QED BY <2>3, <2>4
<1>3. ASSUME NEW d \in Letter!Decisions, Letter!Closes(d) PROVE LoopMoves(loop, loop', LetterSteps)
  <2> DEFINE text == d.reply \ {"firm"}
             w == IF d.reply = {} THEN {"loop_no_reply_after_max_steps"}
                  ELSE (IF "firm" \in d.reply THEN {"loop_reply_softened"} ELSE {})
                       \cup (IF text = {} THEN {"loop_reply_forbidden_expression"} ELSE {})
  <2>1. loop.phase = "running" /\ loop' = Ended(loop, text, w)
    BY <1>3 DEF Letter!Closes, Letter!AtLimit, Letter!LastWord, Letter!Softened, Letter!Firm, Letter!Over, Letter!NoText, Ended
  <2>2. text \in SUBSET {"plain"} /\ w \in SUBSET Warnings
    <3>1. d.reply \in SUBSET {"plain", "firm"} BY DEF Letter!Decisions, Letter!Texts
    <3>2. text \in SUBSET {"plain"} BY <3>1
    <3>3. {"loop_no_reply_after_max_steps", "loop_reply_softened", "loop_reply_forbidden_expression"} \subseteq Warnings
      BY DEF Warnings
    <3> QED BY <3>2, <3>3
  <2>3. text = {} => w # {} OBVIOUS
  <2> HIDE DEF text, w
  <2> QED BY <2>1, <2>2, <2>3, <1>0, EndedMoves
<1>4. CASE Letter!Fails
  <2>1. loop.phase = "running" /\ loop' = Ended(loop, {}, {"model", "loop_no_reply_after_max_steps"})
    BY <1>4 DEF Letter!Fails, Letter!AtLimit, Letter!Over, Letter!NoText, Ended
  <2>2. /\ {"model", "loop_no_reply_after_max_steps"} \in SUBSET Warnings
        /\ {"model", "loop_no_reply_after_max_steps"} # {} /\ {} \in SUBSET {"plain"}
    BY DEF Warnings
  <2> QED BY <2>1, <2>2, <1>0, EndedMoves
<1> QED BY <1>1, <1>2, <1>3, <1>4 DEF Letter!Talks

LEMMA LetterLoopHolds == ASSUME LoopFits(loop, LetterSteps) PROVE Letter!LoopEndsWell
<1>1. LetterSteps \in Nat BY AgentsFit
<1> QED BY <1>1 DEF LoopFits, LoopRecord, Letter!LoopEndsWell, Letter!Firm, Letter!NoText

LEMMA PracticeUses ==
  ASSUME NEW tool, NEW w \in SUBSET Warnings, Practice!Uses(tool, w)
  PROVE  LoopMoves(loop, loop', PracticeSteps)
<1>1. loop.phase = "running" /\ loop.step <= PracticeSteps /\ loop' = Observed(loop, w)
  BY DEF Practice!Uses, Practice!Running, Practice!Observe, Observed
<1> QED BY <1>1, ObservedMoves

LEMMA PracticeTalks ==
  ASSUME LoopFits(loop, PracticeSteps), Practice!Talks PROVE LoopMoves(loop, loop', PracticeSteps)
<1>0. loop.phase = "running" => ~(loop.step <= PracticeSteps /\ loop.step > PracticeSteps)
  BY AgentsFit DEF LoopFits, LoopRecord
<1>1. CASE Practice!Unavailable
  <2>1. loop.phase = "running" /\ loop' = Ended(loop, {}, {"model"})
    BY <1>1 DEF Practice!Unavailable, Practice!Running, Practice!Over, Practice!NoText, Ended
  <2>2. {"model"} \in SUBSET Warnings /\ {"model"} # {} /\ {} \in SUBSET {"plain"} BY DEF Warnings
  <2> QED BY <2>1, <2>2, <1>0, EndedMoves
<1>2. ASSUME NEW d \in Practice!Decisions, Practice!Answers(d) PROVE LoopMoves(loop, loop', PracticeSteps)
  <2>1. d.reply \in SUBSET {"plain", "firm"} BY DEF Practice!Decisions, Practice!Texts
  <2>2. loop.phase = "running" /\ loop.step <= PracticeSteps
    BY <1>2 DEF Practice!Answers, Practice!Running
  <2>3. CASE "firm" \in d.reply
    <3>1. loop' = Observed(loop, {"loop_reply_rewritten"})
      BY <1>2, <2>3 DEF Practice!Answers, Practice!Firm, Practice!Observe, Observed
    <3>2. {"loop_reply_rewritten"} \in SUBSET Warnings BY DEF Warnings
    <3> QED BY <2>2, <3>1, <3>2, ObservedMoves
  <2>4. CASE "firm" \notin d.reply
    <3>1. loop' = Ended(loop, d.reply, {})
      BY <1>2, <2>4 DEF Practice!Answers, Practice!Firm, Practice!Over, Ended
    <3>2. d.reply \in SUBSET {"plain"} /\ {} \in SUBSET Warnings BY <2>1, <2>4
    <3> QED BY <2>2, <3>1, <3>2, <1>0, EndedMoves
  <2> QED BY <2>3, <2>4
<1>3. ASSUME NEW d \in Practice!Decisions, Practice!Closes(d) PROVE LoopMoves(loop, loop', PracticeSteps)
  <2> DEFINE text == d.reply \ {"firm"}
             w == IF d.reply = {} THEN {"loop_no_reply_after_max_steps"}
                  ELSE (IF "firm" \in d.reply THEN {"loop_reply_softened"} ELSE {})
                       \cup (IF text = {} THEN {"loop_reply_forbidden_expression"} ELSE {})
  <2>1. loop.phase = "running" /\ loop' = Ended(loop, text, w)
    BY <1>3 DEF Practice!Closes, Practice!AtLimit, Practice!LastWord, Practice!Softened, Practice!Firm, Practice!Over, Practice!NoText, Ended
  <2>2. text \in SUBSET {"plain"} /\ w \in SUBSET Warnings
    <3>1. d.reply \in SUBSET {"plain", "firm"} BY DEF Practice!Decisions, Practice!Texts
    <3>2. text \in SUBSET {"plain"} BY <3>1
    <3>3. {"loop_no_reply_after_max_steps", "loop_reply_softened", "loop_reply_forbidden_expression"} \subseteq Warnings
      BY DEF Warnings
    <3> QED BY <3>2, <3>3
  <2>3. text = {} => w # {} OBVIOUS
  <2> HIDE DEF text, w
  <2> QED BY <2>1, <2>2, <2>3, <1>0, EndedMoves
<1>4. CASE Practice!Fails
  <2>1. loop.phase = "running" /\ loop' = Ended(loop, {}, {"model", "loop_no_reply_after_max_steps"})
    BY <1>4 DEF Practice!Fails, Practice!AtLimit, Practice!Over, Practice!NoText, Ended
  <2>2. /\ {"model", "loop_no_reply_after_max_steps"} \in SUBSET Warnings
        /\ {"model", "loop_no_reply_after_max_steps"} # {} /\ {} \in SUBSET {"plain"}
    BY DEF Warnings
  <2> QED BY <2>1, <2>2, <1>0, EndedMoves
<1> QED BY <1>1, <1>2, <1>3, <1>4 DEF Practice!Talks

LEMMA PracticeLoopHolds == ASSUME LoopFits(loop, PracticeSteps) PROVE Practice!LoopEndsWell
<1>1. PracticeSteps \in Nat BY AgentsFit
<1> QED BY <1>1 DEF LoopFits, LoopRecord, Practice!LoopEndsWell, Practice!Firm, Practice!NoText

LEMMA IntakeUses ==
  ASSUME NEW tool, NEW w \in SUBSET Warnings, Intake!Uses(tool, w)
  PROVE  LoopMoves(loop, loop', IntakeSteps)
<1>1. loop.phase = "running" /\ loop.step <= IntakeSteps /\ loop' = Observed(loop, w)
  BY DEF Intake!Uses, Intake!Running, Intake!Observe, Observed
<1> QED BY <1>1, ObservedMoves

LEMMA IntakeTalks ==
  ASSUME LoopFits(loop, IntakeSteps), Intake!Talks PROVE LoopMoves(loop, loop', IntakeSteps)
<1>0. loop.phase = "running" => ~(loop.step <= IntakeSteps /\ loop.step > IntakeSteps)
  BY AgentsFit DEF LoopFits, LoopRecord
<1>1. CASE Intake!Unavailable
  <2>1. loop.phase = "running" /\ loop' = Ended(loop, {}, {"model"})
    BY <1>1 DEF Intake!Unavailable, Intake!Running, Intake!Over, Intake!NoText, Ended
  <2>2. {"model"} \in SUBSET Warnings /\ {"model"} # {} /\ {} \in SUBSET {"plain"} BY DEF Warnings
  <2> QED BY <2>1, <2>2, <1>0, EndedMoves
<1>2. ASSUME NEW d \in Intake!Decisions, Intake!Answers(d) PROVE LoopMoves(loop, loop', IntakeSteps)
  <2>1. d.reply \in SUBSET {"plain", "firm"} BY DEF Intake!Decisions, Intake!Texts
  <2>2. loop.phase = "running" /\ loop.step <= IntakeSteps
    BY <1>2 DEF Intake!Answers, Intake!Running
  <2>3. CASE "firm" \in d.reply
    <3>1. loop' = Observed(loop, {"loop_reply_rewritten"})
      BY <1>2, <2>3 DEF Intake!Answers, Intake!Firm, Intake!Observe, Observed
    <3>2. {"loop_reply_rewritten"} \in SUBSET Warnings BY DEF Warnings
    <3> QED BY <2>2, <3>1, <3>2, ObservedMoves
  <2>4. CASE "firm" \notin d.reply
    <3>1. loop' = Ended(loop, d.reply, {})
      BY <1>2, <2>4 DEF Intake!Answers, Intake!Firm, Intake!Over, Ended
    <3>2. d.reply \in SUBSET {"plain"} /\ {} \in SUBSET Warnings BY <2>1, <2>4
    <3> QED BY <2>2, <3>1, <3>2, <1>0, EndedMoves
  <2> QED BY <2>3, <2>4
<1>3. ASSUME NEW d \in Intake!Decisions, Intake!Closes(d) PROVE LoopMoves(loop, loop', IntakeSteps)
  <2> DEFINE text == d.reply \ {"firm"}
             w == IF d.reply = {} THEN {"loop_no_reply_after_max_steps"}
                  ELSE (IF "firm" \in d.reply THEN {"loop_reply_softened"} ELSE {})
                       \cup (IF text = {} THEN {"loop_reply_forbidden_expression"} ELSE {})
  <2>1. loop.phase = "running" /\ loop' = Ended(loop, text, w)
    BY <1>3 DEF Intake!Closes, Intake!AtLimit, Intake!LastWord, Intake!Softened, Intake!Firm, Intake!Over, Intake!NoText, Ended
  <2>2. text \in SUBSET {"plain"} /\ w \in SUBSET Warnings
    <3>1. d.reply \in SUBSET {"plain", "firm"} BY DEF Intake!Decisions, Intake!Texts
    <3>2. text \in SUBSET {"plain"} BY <3>1
    <3>3. {"loop_no_reply_after_max_steps", "loop_reply_softened", "loop_reply_forbidden_expression"} \subseteq Warnings
      BY DEF Warnings
    <3> QED BY <3>2, <3>3
  <2>3. text = {} => w # {} OBVIOUS
  <2> HIDE DEF text, w
  <2> QED BY <2>1, <2>2, <2>3, <1>0, EndedMoves
<1>4. CASE Intake!Fails
  <2>1. loop.phase = "running" /\ loop' = Ended(loop, {}, {"model", "loop_no_reply_after_max_steps"})
    BY <1>4 DEF Intake!Fails, Intake!AtLimit, Intake!Over, Intake!NoText, Ended
  <2>2. /\ {"model", "loop_no_reply_after_max_steps"} \in SUBSET Warnings
        /\ {"model", "loop_no_reply_after_max_steps"} # {} /\ {} \in SUBSET {"plain"}
    BY DEF Warnings
  <2> QED BY <2>1, <2>2, <1>0, EndedMoves
<1> QED BY <1>1, <1>2, <1>3, <1>4 DEF Intake!Talks

LEMMA IntakeLoopHolds == ASSUME LoopFits(loop, IntakeSteps) PROVE Intake!LoopEndsWell
<1>1. IntakeSteps \in Nat BY AgentsFit
<1> QED BY <1>1 DEF LoopFits, LoopRecord, Intake!LoopEndsWell, Intake!Firm, Intake!NoText


-----------------------------------------------------------------------------
(* The cover letter *)

LEMMA LetterStep ==
  ASSUME LoopFits(loop, LetterSteps), Letter!LetterNext \/ UNCHANGED loop
  PROVE  LoopFits(loop', LetterSteps)
<1>0. LetterSteps \in Nat BY AgentsFit
<1>1. CASE Letter!Open
  <2>1. loop' = Letter!Idle \/ loop' = Letter!Started BY <1>1 DEF Letter!Open
  <2> QED BY <2>1, <1>0, StartFits DEF Letter!Idle, Letter!Started, Letter!NoText, LoopFits
<1>2. ASSUME NEW tool, NEW w \in SUBSET Warnings, Letter!Uses(tool, w) PROVE LoopFits(loop', LetterSteps)
  BY <1>0, <1>2, LetterUses, MovesFit
<1>3. CASE Letter!Look
  <2>1. {} \in SUBSET Warnings /\ {"loop_tool_failed"} \in SUBSET Warnings /\ {"delegated_warning"} \in SUBSET Warnings
    BY DEF Warnings
  <2> QED BY <1>2, <1>3, <2>1 DEF Letter!Look, Letter!Breaks, Letter!AsksAgent
<1>4. ASSUME NEW w, Letter!Save(w) PROVE LoopFits(loop', LetterSteps)
  BY <1>2, <1>4 DEF Letter!Save
<1>5. CASE Letter!Speak
  BY <1>0, <1>5, LetterTalks, MovesFit DEF Letter!Speak
<1>6. ASSUME NEW u, Letter!Deliver(u) PROVE LoopFits(loop', LetterSteps)
  BY <1>6 DEF Letter!Deliver, Letter!Idle, LoopFits
<1>7. ASSUME NEW who, Letter!NewResume(who) PROVE LoopFits(loop', LetterSteps)
  BY <1>7 DEF Letter!NewResume
<1>8. CASE UNCHANGED loop BY <1>8
<1> QED BY <1>1, <1>3, <1>4, <1>5, <1>6, <1>7, <1>8 DEF Letter!LetterNext

\* The paragraphs of a letter, each with its sentences at their places, and its revisions
Lettered(l) == l = [k \in {"motivation", "strengths", "improvement", "revisions"} |-> l[k]]

\* What the turns before have written is taken up again
LetterInv ==
    /\ LoopFits(loop, LetterSteps)
    /\ Lettered(letter) /\ Lettered(kept)
    /\ loop.phase # "idle" /\ Letter!HasDraft(kept) => Letter!HasDraft(letter)

LEMMA NothingLettered == Lettered(Letter!NoLetter)
BY DEF Lettered, Letter!NoLetter, Letter!Parts

LEMMA LetterBegins == ASSUME Letter!LetterInit PROVE LetterInv
<1>1. LoopFits(loop, LetterSteps) /\ loop.phase = "idle"
  BY DEF Letter!LetterInit, Letter!Idle, LoopFits
<1> QED BY <1>1, NothingLettered DEF Letter!LetterInit, LetterInv

\* The verified letter: the strengths have the sentences that name nothing the person has not
LEMMA VerifiedFits ==
  ASSUME NEW l, Lettered(l), NEW who
  PROVE  /\ Lettered(Letter!Verified(l, who))
         /\ Letter!SkillsIn(Letter!Verified(l, who)["strengths"]) \subseteq who.skills
         /\ Letter!FirmIn(Letter!Verified(l, who)) => Letter!FirmIn(l)
<1> DEFINE places == {i \in DOMAIN l["strengths"] : l["strengths"][i].skill \in who.skills \cup {"none"}}
           left == [i \in places |-> l["strengths"][i]]
           v == Letter!Verified(l, who)
<1>1. v = [l EXCEPT !["strengths"] = left]
  BY DEF Letter!Verified, Letter!RestrictValues, Letter!Restrict, Letter!None
<1>2. DOMAIN l = {"motivation", "strengths", "improvement", "revisions"}
  BY DEF Lettered
<1>3. /\ v = [k \in {"motivation", "strengths", "improvement", "revisions"} |-> v[k]]
      /\ v["strengths"] = left
      /\ v["motivation"] = l["motivation"] /\ v["improvement"] = l["improvement"]
  BY <1>1, <1>2
<1>4. \A i \in DOMAIN left : /\ i \in DOMAIN l["strengths"] /\ left[i] = l["strengths"][i]
                             /\ left[i].skill \in who.skills \cup {"none"}
  OBVIOUS
<1> HIDE DEF v, left
<1>5. Letter!SkillsIn(v["strengths"]) \subseteq who.skills
  BY <1>3, <1>4 DEF Letter!SkillsIn, Letter!None
<1>6. Letter!FirmIn(v) => Letter!FirmIn(l)
  BY <1>3, <1>4 DEF Letter!FirmIn, Letter!Parts
<1>7. Lettered(v) BY <1>3 DEF Lettered
<1> QED BY <1>5, <1>6, <1>7 DEF v

LEMMA SavedFits ==
  ASSUME LetterInv, NEW w \in Drafts, Letter!Save(w)
  PROVE  Lettered(letter') /\ (Letter!HasDraft(letter) => Letter!HasDraft(letter)')
<1>1. DOMAIN letter = {"motivation", "strengths", "improvement", "revisions"}
  BY DEF LetterInv, Lettered
<1>2. CASE DOMAIN w = {}
  BY <1>2 DEF Letter!Save, LetterInv
<1>3. CASE DOMAIN w # {}
  <2>1. letter' = [p \in DOMAIN letter |->
                     IF p \in DOMAIN w THEN w[p]
                     ELSE IF p = "revisions" THEN letter[p] + 1 ELSE letter[p]]
    BY <1>3 DEF Letter!Save
  <2>2. /\ DOMAIN w \subseteq {"motivation", "strengths", "improvement"}
        /\ \A p \in DOMAIN w : w[p] # <<>>
    BY AgentsFit
  <2>3. Lettered(letter') BY <1>1, <2>1 DEF Lettered
  <2>4. \A p \in Letter!Parts : letter[p] # <<>> => letter'[p] # <<>>
    BY <1>1, <2>1, <2>2 DEF Letter!Parts
  <2> QED BY <2>3, <2>4 DEF Letter!HasDraft
<1> QED BY <1>2, <1>3

\* The template has its paragraphs where a letter has them
LEMMA TemplateFits == ASSUME NEW who PROVE Lettered(Letter!Template(who))
BY NothingLettered DEF Lettered, Letter!Template

\* What a delivered turn comes to
LEMMA Delivered ==
  ASSUME LetterInv, NEW u, Letter!Deliver(u)
  PROVE  Lettered(letter') /\ Lettered(kept') /\ loop'.phase = "idle" /\ Letter!DeliversWhatIsVerified
<1>1. /\ loop.phase = "over" /\ loop' = Letter!Idle /\ letter' = Letter!NoLetter
      /\ kept' = IF drafted'.kind = "draft" THEN drafted'.letter ELSE kept
  BY DEF Letter!Deliver
<1>2. PICK said : drafted' = IF Letter!HasDraft(letter)
                             THEN Letter!Finished(letter, loop.reply, loop.warned \cup said)
                             ELSE IF u THEN Letter!Finished(Letter!Template(person), {"plain"}, loop.warned)
                             ELSE [kind |-> "failed"]
  BY DEF Letter!Deliver
<1>3. ASSUME NEW l, Lettered(l), NEW note, NEW warnings, drafted' = Letter!Finished(l, note, warnings)
      PROVE  /\ drafted'.kind = "draft" /\ Lettered(drafted'.letter)
             /\ Letter!SkillsIn(drafted'.letter["strengths"]) \subseteq person.skills
             /\ drafted'.check = Letter!Report(drafted'.letter, person)
             /\ Letter!FirmIn(drafted'.letter) => "forbidden_expression" \in drafted'.warned
             /\ Letter!Issues(drafted'.check) => "coverletter_check_unresolved" \in drafted'.warned
  <2> DEFINE v == Letter!Verified(l, person)
             check == Letter!Report(v, person)
             told == warnings
                       \cup (IF Letter!FirmIn(l) THEN {"forbidden_expression"} ELSE {})
                       \cup (IF v # l THEN {"ungrounded_skill_removed"} ELSE {})
                       \cup (IF Letter!Issues(check) THEN {"coverletter_check_unresolved"} ELSE {})
  <2>1. drafted' = [kind |-> "draft", letter |-> v, note |-> note, check |-> check, warned |-> told]
    BY <1>3 DEF Letter!Finished
  <2>2. drafted'.kind = "draft" /\ drafted'.letter = v /\ drafted'.check = check /\ drafted'.warned = told
    BY <2>1
  <2>3. /\ Letter!FirmIn(l) => "forbidden_expression" \in told
        /\ Letter!Issues(check) => "coverletter_check_unresolved" \in told
    <3> HIDE DEF v, check
    <3> QED OBVIOUS
  <2> HIDE DEF told
  <2>4. /\ Lettered(v) /\ Letter!SkillsIn(v["strengths"]) \subseteq person.skills
        /\ Letter!FirmIn(v) => Letter!FirmIn(l)
    BY <1>3, VerifiedFits
  <2> QED BY <2>2, <2>3, <2>4
<1>4. Lettered(letter) /\ Lettered(Letter!Template(person))
  BY TemplateFits DEF LetterInv
<1>5. CASE drafted'.kind = "draft"
  <2>1. \/ drafted' = Letter!Finished(letter, loop.reply, loop.warned \cup said)
        \/ drafted' = Letter!Finished(Letter!Template(person), {"plain"}, loop.warned)
    BY <1>2, <1>5
  <2>2. kept' = drafted'.letter BY <1>1, <1>5
  <2> QED BY <1>1, <1>3, <1>4, <1>5, <2>1, <2>2, NothingLettered
          DEF Letter!DeliversWhatIsVerified, Letter!Idle
<1>6. CASE drafted'.kind # "draft"
  <2>1. ~Letter!HasDraft(letter) BY <1>2, <1>3, <1>4, <1>6
  <2>2. ~Letter!HasDraft(kept) BY <1>1, <2>1 DEF LetterInv
  <2> QED BY <1>1, <1>6, <2>1, <2>2, NothingLettered
          DEF LetterInv, Letter!DeliversWhatIsVerified, Letter!Idle
<1> QED BY <1>5, <1>6

LEMMA LetterKeeps ==
  ASSUME LetterInv, Letter!LetterNext \/ UNCHANGED <<loop, letterVars>>
  PROVE  LetterInv' /\ Letter!DeliversWhatIsVerified
<1>1. LoopFits(loop', LetterSteps) BY LetterStep DEF LetterInv
<1>2. loop.phase = "over" /\ loop' = Letter!Idle => loop # loop' BY DEF Letter!Idle
<1>3. CASE Letter!Open
  <2>1. loop.phase = "idle" /\ letter' = kept /\ kept' = kept
    BY <1>3 DEF Letter!Open, Letter!Idle
  <2> QED BY <1>1, <2>1 DEF LetterInv, Letter!HasDraft, Letter!DeliversWhatIsVerified
<1>4. ASSUME UNCHANGED <<letter, kept>>, loop.phase = "running" \/ loop' = loop
      PROVE  LetterInv' /\ Letter!DeliversWhatIsVerified
  <2>1. loop'.phase # "idle" => loop.phase # "idle" BY <1>4
  <2>2. ~(loop.phase = "over" /\ loop' = Letter!Idle) BY <1>2, <1>4
  <2> QED BY <1>1, <1>4, <2>1, <2>2 DEF LetterInv, Letter!HasDraft, Letter!DeliversWhatIsVerified
<1>5. ASSUME NEW tool, NEW w, Letter!Uses(tool, w) PROVE loop.phase = "running"
  BY <1>5 DEF Letter!Uses, Letter!Running
<1>6. CASE Letter!Look
  BY <1>4, <1>5, <1>6 DEF Letter!Look, Letter!Breaks, Letter!AsksAgent
<1>7. ASSUME NEW w \in Drafts, Letter!Save(w) PROVE LetterInv' /\ Letter!DeliversWhatIsVerified
  <2>1. loop.phase = "running" /\ kept' = kept BY <1>5, <1>7 DEF Letter!Save
  <2>2. Lettered(letter') /\ (Letter!HasDraft(letter) => Letter!HasDraft(letter)')
    BY <1>7, SavedFits
  <2>3. Letter!HasDraft(kept)' = Letter!HasDraft(kept) BY <2>1 DEF Letter!HasDraft
  <2> QED BY <1>1, <2>1, <2>2, <2>3 DEF LetterInv, Letter!DeliversWhatIsVerified
<1>8. CASE Letter!Speak
  <2>1. loop.phase = "running"
    BY <1>8, LetterTalks DEF Letter!Speak, LetterInv, LoopMoves
  <2> QED BY <1>4, <1>8, <2>1 DEF Letter!Speak
<1>9. ASSUME NEW u, Letter!Deliver(u) PROVE LetterInv' /\ Letter!DeliversWhatIsVerified
  BY <1>1, <1>9, Delivered DEF LetterInv
<1>10. ASSUME NEW who, Letter!NewResume(who) PROVE LetterInv' /\ Letter!DeliversWhatIsVerified
  BY <1>4, <1>10 DEF Letter!NewResume
<1>11. CASE UNCHANGED <<loop, letterVars>>
  BY <1>4, <1>11 DEF letterVars
<1> QED BY <1>3, <1>6, <1>7, <1>8, <1>9, <1>10, <1>11 DEF Letter!LetterNext

-----------------------------------------------------------------------------
(* The interview: what was picked, asked and answered *)

FoundTopics == {m.topic : m \in UNION {Practice!ToSet(Practice!Materials(v)) : v \in Findings}}
Named == FoundTopics \cup {"none"}
Answered == [about : Named, said : {"answer", "else"}]
Practised == [asked : Seq(Named), answers : Seq(Answered), used : Seq(FoundTopics)]

\* No topic twice, and what was asked or answered is about a topic that was picked
InOrder(q) ==
    /\ q \in Practised
    /\ IsFiniteSet(Practice!ToSet(q.used)) /\ Cardinality(Practice!ToSet(q.used)) = Len(q.used)
    /\ \A i \in 1 .. Len(q.asked) : q.asked[i] \in Practice!ToSet(q.used) \cup {"none"}
    /\ \A i \in 1 .. Len(q.answers) : q.answers[i].about \in Practice!ToSet(q.used) \cup {"none"}

PracticeInv ==
    /\ LoopFits(loop, PracticeSteps)
    /\ analysis \in Findings /\ heard \in {"none", "answer", "else"}
    /\ InOrder(practice) /\ InOrder(progress)
    /\ pending.topic \in Practice!ToSet(practice.used) \cup {"none"}

LEMMA SetOfAppended ==
  ASSUME NEW S, NEW q \in Seq(S), NEW x \in S
  PROVE  Practice!ToSet(Append(q, x)) = Practice!ToSet(q) \cup {x}
<1>1. \A i \in 1 .. Len(q) : Append(q, x)[i] = q[i] OBVIOUS
<1>2. Append(q, x)[Len(q) + 1] = x /\ Len(Append(q, x)) = Len(q) + 1 OBVIOUS
<1> QED BY <1>1, <1>2 DEF Practice!ToSet

LEMMA NothingPractised == InOrder([asked |-> <<>>, answers |-> <<>>, used |-> <<>>])
<1>1. Practice!ToSet(<<>>) = {} BY DEF Practice!ToSet
<1> QED BY <1>1, FS_EmptySet DEF InOrder, Practised

LEMMA PracticeBegins == ASSUME Practice!PracticeInit PROVE PracticeInv
BY NothingPractised DEF Practice!PracticeInit, PracticeInv, Practice!NoPractice, Practice!NoTopic,
                        Practice!None, Practice!Idle, LoopFits

LEMMA PickedFits ==
  ASSUME NEW q, InOrder(q), NEW x \in FoundTopics, x \notin Practice!ToSet(q.used)
  PROVE  /\ InOrder([q EXCEPT !.used = Append(@, x)])
         /\ x \in Practice!ToSet([q EXCEPT !.used = Append(@, x)].used)
<1> DEFINE r == [q EXCEPT !.used = Append(@, x)]
<1>1. q \in Practised /\ q.used \in Seq(FoundTopics) BY DEF InOrder, Practised
<1>2. /\ r \in Practised /\ r.used = Append(q.used, x) /\ r.asked = q.asked /\ r.answers = q.answers
  <2>1. Append(q.used, x) \in Seq(FoundTopics) BY <1>1
  <2>2. r = [q EXCEPT !.used = Append(q.used, x)] OBVIOUS
  <2> HIDE DEF r
  <2> QED BY <1>1, <2>1, <2>2 DEF Practised
<1>3. Practice!ToSet(r.used) = Practice!ToSet(q.used) \cup {x} /\ Len(r.used) = Len(q.used) + 1
  BY <1>1, <1>2, SetOfAppended
<1>4. /\ IsFiniteSet(Practice!ToSet(q.used) \cup {x})
      /\ Cardinality(Practice!ToSet(q.used) \cup {x}) = Cardinality(Practice!ToSet(q.used)) + 1
  BY FS_AddElement DEF InOrder
<1> HIDE DEF r
<1>5. InOrder(r) BY <1>2, <1>3, <1>4 DEF InOrder
<1> QED BY <1>3, <1>5 DEF r

LEMMA AnsweredFits ==
  ASSUME NEW q, InOrder(q), NEW x \in Practice!ToSet(q.used) \cup {"none"}, NEW said \in {"answer", "else"}
  PROVE  LET r == [q EXCEPT !.answers = Append(@, [about |-> x, said |-> said])]
         IN  InOrder(r) /\ r.used = q.used
<1> DEFINE r == [q EXCEPT !.answers = Append(@, [about |-> x, said |-> said])]
<1>1. q \in Practised /\ q.used \in Seq(FoundTopics) /\ q.answers \in Seq(Answered) BY DEF InOrder, Practised
<1>2. x \in Named BY <1>1 DEF Named, Practice!ToSet
<1>3. [about |-> x, said |-> said] \in Answered BY <1>2 DEF Answered
<1>4. /\ r \in Practised /\ r.used = q.used /\ r.asked = q.asked
      /\ r.answers = Append(q.answers, [about |-> x, said |-> said])
  <2> DEFINE y == [about |-> x, said |-> said]
  <2>1. Append(q.answers, y) \in Seq(Answered) BY <1>1, <1>3
  <2>2. r = [q EXCEPT !.answers = Append(q.answers, y)] OBVIOUS
  <2> HIDE DEF y, r
  <2>3. /\ r \in Practised /\ r.used = q.used /\ r.asked = q.asked /\ r.answers = Append(q.answers, y)
    BY <1>1, <2>1, <2>2 DEF Practised
  <2> QED BY <2>3 DEF y
<1>5. \A i \in 1 .. Len(r.answers) : r.answers[i].about \in Practice!ToSet(q.used) \cup {"none"}
  BY <1>1, <1>3, <1>4 DEF InOrder
<1> HIDE DEF r
<1>6. InOrder(r) BY <1>4, <1>5 DEF InOrder
<1> QED BY <1>4, <1>6 DEF r

LEMMA AskedFits ==
  ASSUME NEW q, InOrder(q), NEW x \in Practice!ToSet(q.used) \cup {"none"}
  PROVE  LET r == [q EXCEPT !.asked = Append(@, x)] IN InOrder(r) /\ r.used = q.used
<1> DEFINE r == [q EXCEPT !.asked = Append(@, x)]
<1>1. q \in Practised /\ q.used \in Seq(FoundTopics) /\ q.asked \in Seq(Named) BY DEF InOrder, Practised
<1>2. x \in Named BY <1>1 DEF Named, Practice!ToSet
<1>3. r \in Practised /\ r.used = q.used /\ r.answers = q.answers /\ r.asked = Append(q.asked, x)
  <2>1. Append(q.asked, x) \in Seq(Named) BY <1>1, <1>2
  <2>2. r = [q EXCEPT !.asked = Append(q.asked, x)] OBVIOUS
  <2> HIDE DEF r
  <2> QED BY <1>1, <2>1, <2>2 DEF Practised
<1>4. \A i \in 1 .. Len(r.asked) : r.asked[i] \in Practice!ToSet(q.used) \cup {"none"}
  BY <1>1, <1>2, <1>3 DEF InOrder
<1> HIDE DEF r
<1>5. InOrder(r) BY <1>3, <1>4 DEF InOrder
<1> QED BY <1>3, <1>5 DEF r

LEMMA PracticeStep ==
  ASSUME PracticeInv, Practice!PracticeNext \/ UNCHANGED <<loop, practiceVars>> PROVE PracticeInv'
<1>0. PracticeSteps \in Nat /\ {} \in SUBSET Warnings /\ {"loop_tool_failed"} \in SUBSET Warnings
  BY AgentsFit DEF Warnings
<1>1. ASSUME NEW tool, NEW w \in SUBSET Warnings, Practice!Uses(tool, w) PROVE LoopFits(loop', PracticeSteps)
  BY <1>0, <1>1, PracticeUses, MovesFit DEF PracticeInv
<1>2. ASSUME NEW said \in {"none", "answer", "else"}, Practice!Open(said) PROVE PracticeInv'
  <2>1. loop' = loop \/ loop' = Practice!Started BY <1>2 DEF Practice!Open
  <2>2. LoopFits(loop', PracticeSteps)
    BY <2>1, <1>0, StartFits DEF Practice!Started, Practice!NoText, PracticeInv
  <2>3. practice' = practice \/ practice' = progress BY <1>2 DEF Practice!Open
  <2>4. InOrder(practice') BY <2>3 DEF PracticeInv
  <2>5. UNCHANGED <<analysis, progress>> /\ heard' = said /\ pending'.topic = "none"
    BY <1>2 DEF Practice!Open, Practice!NoTopic, Practice!None
  <2> QED BY <2>2, <2>4, <2>5 DEF PracticeInv
<1>3. ASSUME NEW want, Practice!Pick(want) PROVE PracticeInv'
  <2>1. LoopFits(loop', PracticeSteps) BY <1>0, <1>1, <1>3 DEF Practice!Pick
  <2>2. UNCHANGED <<analysis, progress, heard>> BY <1>3 DEF Practice!Pick
  <2>3. CASE UNCHANGED <<practice, pending>> BY <2>1, <2>2, <2>3 DEF PracticeInv
  <2>4. CASE ~UNCHANGED <<practice, pending>>
    <3>1. PICK i \in Practice!Candidates(practice, want) :
            /\ pending' = Practice!Materials(analysis)[i]
            /\ practice' = [practice EXCEPT !.used = Append(@, Practice!Materials(analysis)[i].topic)]
      BY <1>3, <2>4 DEF Practice!Pick
    <3> DEFINE x == Practice!Materials(analysis)[i].topic
    <3>2. i \in DOMAIN Practice!Materials(analysis) /\ x \notin Practice!ToSet(practice.used)
      BY DEF Practice!Candidates
    <3>3. x \in FoundTopics
      <4>1. Practice!Materials(analysis)[i] \in Practice!ToSet(Practice!Materials(analysis))
        BY <3>2 DEF Practice!ToSet
      <4>2. analysis \in Findings BY DEF PracticeInv
      <4> QED BY <4>1, <4>2 DEF FoundTopics
    <3>4. practice' = [practice EXCEPT !.used = Append(@, x)] /\ pending'.topic = x BY <3>1
    <3> HIDE DEF x
    <3>5. InOrder(practice') /\ pending'.topic \in Practice!ToSet(practice'.used)
      BY <3>2, <3>3, <3>4, PickedFits DEF PracticeInv
    <3> QED BY <2>1, <2>2, <3>5 DEF PracticeInv
  <2> QED BY <2>3, <2>4
<1>4. CASE Practice!CheckAnswer
  <2>1. LoopFits(loop', PracticeSteps) BY <1>0, <1>1, <1>4 DEF Practice!CheckAnswer
  <2>2. UNCHANGED <<analysis, pending, progress, heard>> BY <1>4 DEF Practice!CheckAnswer
  <2>3. InOrder(practice') /\ practice'.used = practice.used
    <3>1. CASE heard = "none" BY <1>4, <3>1 DEF Practice!CheckAnswer, Practice!None, PracticeInv
    <3>2. CASE heard # "none"
      <4>1. practice' = [practice EXCEPT !.answers = Append(@, [about |-> pending.topic, said |-> heard])]
        BY <1>4, <3>2 DEF Practice!CheckAnswer, Practice!None
      <4> QED BY <3>2, <4>1, AnsweredFits DEF PracticeInv
    <3> QED BY <3>1, <3>2
  <2> QED BY <2>1, <2>2, <2>3 DEF PracticeInv
<1>5. ASSUME NEW blank \in BOOLEAN, Practice!RecordQuestion(blank) PROVE PracticeInv'
  <2>1. LoopFits(loop', PracticeSteps) BY <1>0, <1>1, <1>5 DEF Practice!RecordQuestion
  <2>2. UNCHANGED <<analysis, pending, progress, heard>> BY <1>5 DEF Practice!RecordQuestion
  <2>3. InOrder(practice') /\ practice'.used = practice.used
    BY <1>5, AskedFits DEF Practice!RecordQuestion, PracticeInv
  <2> QED BY <2>1, <2>2, <2>3 DEF PracticeInv
<1>6. CASE Practice!FindEvidence
  <2>1. LoopFits(loop', PracticeSteps) BY <1>0, <1>1, <1>6 DEF Practice!FindEvidence, Practice!Breaks
  <2> QED BY <1>6, <2>1 DEF Practice!FindEvidence, PracticeInv
<1>7. CASE Practice!Speak
  <2>1. LoopFits(loop', PracticeSteps)
    BY <1>0, <1>7, PracticeTalks, MovesFit DEF Practice!Speak, PracticeInv
  <2> QED BY <1>7, <2>1 DEF Practice!Speak, PracticeInv
<1>8. CASE Practice!Deliver
  <2>1. LoopFits(loop', PracticeSteps) BY <1>8 DEF Practice!Deliver, Practice!Idle, LoopFits
  <2>2. InOrder(practice')
    BY <1>8, NothingPractised DEF Practice!Deliver, Practice!NoPractice
  <2>3. /\ UNCHANGED analysis /\ heard' = "none" /\ pending'.topic = "none" /\ progress' = practice
    BY <1>8 DEF Practice!Deliver, Practice!NoTopic, Practice!None
  <2> QED BY <2>1, <2>2, <2>3 DEF PracticeInv
<1>9. ASSUME NEW v \in Findings, Practice!Judge(v) PROVE PracticeInv'
  BY <1>9 DEF Practice!Judge, PracticeInv
<1>10. CASE UNCHANGED <<loop, practiceVars>>
  BY <1>10 DEF practiceVars, PracticeInv
<1> QED BY <1>2, <1>3, <1>4, <1>5, <1>6, <1>7, <1>8, <1>9, <1>10 DEF Practice!PracticeNext, Practice!None

LEMMA PracticeHolds == ASSUME PracticeInv PROVE Practice!AskedFromFindings
<1>1. \A S : Practice!Cardinality(S) = Cardinality(S)
  BY DEF Practice!Cardinality, Practice!IsFiniteSet, Cardinality, IsFiniteSet
<1>2. ASSUME NEW q, InOrder(q)
      PROVE  /\ Practice!Cardinality(Practice!ToSet(q.used)) = Len(q.used)
             /\ Practice!ToSet(q.used) \subseteq FoundTopics
             /\ Practice!ToSet(q.asked) \cup {q.answers[i].about : i \in DOMAIN q.answers}
                  \subseteq Practice!ToSet(q.used) \cup {"none"}
  <2>1. q.used \in Seq(FoundTopics) /\ q.asked \in Seq(Named) /\ q.answers \in Seq(Answered)
    BY <1>2 DEF InOrder, Practised
  <2>2. Practice!Cardinality(Practice!ToSet(q.used)) = Len(q.used) BY <1>1, <1>2 DEF InOrder
  <2>3. Practice!ToSet(q.used) \subseteq FoundTopics BY <2>1 DEF Practice!ToSet
  <2>4. Practice!ToSet(q.asked) \subseteq Practice!ToSet(q.used) \cup {"none"}
    <3>1. \A i \in DOMAIN q.asked : q.asked[i] \in Practice!ToSet(q.used) \cup {"none"}
      BY <1>2, <2>1 DEF InOrder
    <3>2. Practice!ToSet(q.asked) = {q.asked[i] : i \in DOMAIN q.asked} BY DEF Practice!ToSet
    <3> QED BY <3>1, <3>2
  <2>5. {q.answers[i].about : i \in DOMAIN q.answers} \subseteq Practice!ToSet(q.used) \cup {"none"}
    <3>1. \A i \in DOMAIN q.answers : q.answers[i].about \in Practice!ToSet(q.used) \cup {"none"}
      BY <1>2, <2>1 DEF InOrder
    <3> QED BY <3>1
  <2> QED BY <2>2, <2>3, <2>4, <2>5
<1> QED BY <1>2 DEF PracticeInv, Practice!AskedFromFindings, FoundTopics, Practice!None

\* What the turn holds goes on from what is kept
GoesOn ==
    loop.phase # "idle" =>
      /\ Practice!IsPrefix(progress.asked, practice.asked)
      /\ Practice!IsPrefix(progress.answers, practice.answers)
      /\ Practice!IsPrefix(progress.used, practice.used)

LEMMA PrefixOfItself == ASSUME NEW S, NEW q \in Seq(S) PROVE Practice!IsPrefix(q, q)
BY DEF Practice!IsPrefix

LEMMA PrefixOfAppended ==
  ASSUME NEW S, NEW q \in Seq(S), NEW r \in Seq(S), NEW x \in S, Practice!IsPrefix(q, r)
  PROVE  Practice!IsPrefix(q, Append(r, x))
<1>1. /\ Len(q) \in Nat /\ Len(r) \in Nat /\ Len(q) <= Len(r) /\ Len(Append(r, x)) = Len(r) + 1
      /\ SubSeq(q, 1, Len(q)) = SubSeq(r, 1, Len(q))
  BY DEF Practice!IsPrefix
<1>2. SubSeq(Append(r, x), 1, Len(q)) = SubSeq(r, 1, Len(q))
  <2>1. \A i \in 1 .. Len(q) : Append(r, x)[i] = r[i] BY <1>1
  <2> QED BY <1>1, <2>1
<1> QED BY <1>1, <1>2 DEF Practice!IsPrefix

LEMMA PracticeGoesOn ==
  ASSUME PracticeInv, GoesOn, Practice!PracticeNext \/ UNCHANGED <<loop, practiceVars>>
  PROVE  GoesOn' /\ Practice!ProgressIsKept
<1>1. /\ \A q \in {practice, progress} : q.asked \in Seq(Named) /\ q.answers \in Seq(Answered)
                                       /\ q.used \in Seq(FoundTopics)
      /\ pending.topic \in Named
  <2>1. \A q \in {practice, progress} : q \in Practised BY DEF PracticeInv, InOrder
  <2>2. pending.topic \in Practice!ToSet(practice.used) \cup {"none"} BY DEF PracticeInv
  <2>3. Practice!ToSet(practice.used) \subseteq FoundTopics BY <2>1 DEF Practised, Practice!ToSet
  <2> QED BY <2>1, <2>2, <2>3 DEF Practised, Named
<1>2. /\ Practice!IsPrefix(progress.asked, progress.asked)
      /\ Practice!IsPrefix(progress.answers, progress.answers)
      /\ Practice!IsPrefix(progress.used, progress.used)
  BY <1>1, PrefixOfItself
<1>3. ASSUME UNCHANGED progress PROVE Practice!ProgressIsKept
  BY <1>2, <1>3 DEF Practice!ProgressIsKept
<1>4. ASSUME UNCHANGED <<practice, progress>>, loop.phase = "running" \/ loop' = loop
      PROVE  GoesOn'
  BY <1>4 DEF GoesOn
<1>5. ASSUME NEW tool, NEW w, Practice!Uses(tool, w) PROVE loop.phase = "running"
  BY <1>5 DEF Practice!Uses, Practice!Running
<1>6. ASSUME NEW said, Practice!Open(said) PROVE GoesOn' /\ UNCHANGED progress
  <2>1. progress' = progress /\ loop = [phase |-> "idle"] /\ (loop' = loop \/ practice' = progress)
    BY <1>6 DEF Practice!Open, Practice!Idle
  <2> QED BY <1>2, <2>1 DEF GoesOn
<1>7. ASSUME NEW want, Practice!Pick(want) PROVE GoesOn' /\ UNCHANGED progress
  <2>1. loop.phase = "running" /\ progress' = progress BY <1>5, <1>7 DEF Practice!Pick
  <2>2. CASE practice' = practice BY <2>1, <2>2 DEF GoesOn
  <2>3. CASE practice' # practice
    <3>1. PICK i \in Practice!Candidates(practice, want) :
            practice' = [practice EXCEPT !.used = Append(@, Practice!Materials(analysis)[i].topic)]
      BY <1>7, <2>3 DEF Practice!Pick
    <3> DEFINE x == Practice!Materials(analysis)[i].topic
    <3>2. x \in FoundTopics
      <4>1. Practice!Materials(analysis)[i] \in Practice!ToSet(Practice!Materials(analysis))
        BY DEF Practice!ToSet, Practice!Candidates
      <4> QED BY <4>1 DEF FoundTopics, PracticeInv
    <3>3. practice' = [practice EXCEPT !.used = Append(@, x)] BY <3>1
    <3> HIDE DEF x
    <3>4. /\ practice'.used = Append(practice.used, x) /\ practice'.asked = practice.asked
          /\ practice'.answers = practice.answers
      BY <3>3 DEF PracticeInv, InOrder, Practised
    <3>5. Practice!IsPrefix(progress.used, practice'.used)
      BY <1>1, <2>1, <3>2, <3>4, PrefixOfAppended DEF GoesOn
    <3> QED BY <2>1, <3>4, <3>5 DEF GoesOn
  <2> QED BY <2>2, <2>3
<1>8. CASE Practice!CheckAnswer
  <2>1. loop.phase = "running" /\ progress' = progress BY <1>5, <1>8 DEF Practice!CheckAnswer
  <2>2. CASE practice' = practice BY <1>3, <2>1, <2>2 DEF GoesOn
  <2>3. CASE practice' # practice
    <3> DEFINE x == [about |-> pending.topic, said |-> heard]
    <3>1. practice' = [practice EXCEPT !.answers = Append(@, x)] /\ heard # "none"
      BY <1>8, <2>3 DEF Practice!CheckAnswer, Practice!None
    <3>2. x \in Answered BY <1>1, <3>1 DEF Answered, PracticeInv
    <3> HIDE DEF x
    <3>3. /\ practice'.answers = Append(practice.answers, x) /\ practice'.asked = practice.asked
          /\ practice'.used = practice.used
      BY <3>1 DEF PracticeInv, InOrder, Practised
    <3>4. Practice!IsPrefix(progress.answers, practice'.answers)
      BY <1>1, <2>1, <3>2, <3>3, PrefixOfAppended DEF GoesOn
    <3> QED BY <1>3, <2>1, <3>3, <3>4 DEF GoesOn
  <2> QED BY <2>2, <2>3
<1>9. ASSUME NEW blank, Practice!RecordQuestion(blank) PROVE GoesOn' /\ UNCHANGED progress
  <2>1. loop.phase = "running" /\ progress' = progress BY <1>5, <1>9 DEF Practice!RecordQuestion
  <2>2. CASE practice' = practice BY <2>1, <2>2 DEF GoesOn
  <2>3. CASE practice' # practice
    <3>1. practice' = [practice EXCEPT !.asked = Append(@, pending.topic)]
      BY <1>9, <2>3 DEF Practice!RecordQuestion
    <3>2. /\ practice'.asked = Append(practice.asked, pending.topic)
          /\ practice'.answers = practice.answers /\ practice'.used = practice.used
      BY <3>1 DEF PracticeInv, InOrder, Practised
    <3>3. Practice!IsPrefix(progress.asked, practice'.asked)
      BY <1>1, <2>1, <3>2, PrefixOfAppended DEF GoesOn
    <3> QED BY <2>1, <3>2, <3>3 DEF GoesOn
  <2> QED BY <2>2, <2>3
<1>10. CASE Practice!FindEvidence
  <2>1. loop.phase = "running" /\ UNCHANGED <<practice, progress>>
    BY <1>5, <1>10 DEF Practice!FindEvidence, Practice!Breaks
  <2> QED BY <1>3, <1>4, <2>1
<1>11. CASE Practice!Speak
  <2>1. loop.phase = "running" /\ UNCHANGED <<practice, progress>>
    BY <1>11, PracticeTalks DEF Practice!Speak, PracticeInv, LoopMoves
  <2> QED BY <1>3, <1>4, <2>1
<1>12. CASE Practice!Deliver
  <2>1. loop.phase = "over" /\ loop'.phase = "idle" /\ progress' = practice
    BY <1>12 DEF Practice!Deliver, Practice!Idle
  <2> QED BY <2>1 DEF GoesOn, Practice!ProgressIsKept
<1>13. ASSUME NEW v, Practice!Judge(v) PROVE GoesOn' /\ UNCHANGED progress
  BY <1>4, <1>13 DEF Practice!Judge
<1>14. CASE UNCHANGED <<loop, practiceVars>>
  BY <1>3, <1>4, <1>14 DEF practiceVars
<1> QED BY <1>3, <1>6, <1>7, <1>8, <1>9, <1>10, <1>11, <1>12, <1>13, <1>14 DEF Practice!PracticeNext

-----------------------------------------------------------------------------
(* The preferences of a user *)

Dimensions == {"roles", "companies", "domains", "regions", "techStack"}

\* One value of each dimension and the probes; a role stands among the roles only
Sorted(p) ==
    /\ p = [k \in Dimensions \cup {"turns"} |-> p[k]] /\ p["turns"] \in Nat
    /\ (p["domains"] \cup p["companies"]) \cap RoleLike = {}

IntakeInv ==
    /\ LoopFits(loop, IntakeSteps) /\ Sorted(prefs) /\ Sorted(preferred)
    /\ intake.by = "rule" /\ intake.asks = "preferences" /\ Intake!Known(preferred) # {} =>
         preferred["turns"] <= MaxProbes
    /\ loop.phase = "running" => searched = prefs

LEMMA NothingSorted == Sorted(Intake!NoPreferences)
BY DEF Intake!NoPreferences, Sorted, Dimensions, Intake!Dimensions

LEMMA IntakeBegins == ASSUME Intake!IntakeInit PROVE IntakeInv
<1>1. LoopFits(loop, IntakeSteps) /\ loop.phase # "running"
  BY DEF Intake!IntakeInit, Intake!Idle, LoopFits
<1> QED BY <1>1, NothingSorted DEF Intake!IntakeInit, IntakeInv, Intake!None

LEMMA MergedSorted ==
  ASSUME NEW p, Sorted(p), NEW said \in Said PROVE Sorted(Intake!Merged(p, said))
<1> DEFINE all == [d \in DOMAIN p |-> IF d \in DOMAIN said THEN p[d] \cup said[d] ELSE p[d]]
           m == [all EXCEPT !["domains"] = @ \ (all["roles"] \cup RoleLike),
                            !["companies"] = @ \ (all["roles"] \cup RoleLike)]
<1>1. DOMAIN p = Dimensions \cup {"turns"} /\ "turns" \notin DOMAIN said
  BY AgentsFit DEF Sorted, Dimensions
<1>2. DOMAIN all = Dimensions \cup {"turns"} /\ all["turns"] = p["turns"]
  BY <1>1 DEF Dimensions
<1>3. m["domains"] = all["domains"] \ (all["roles"] \cup RoleLike)
      /\ m["companies"] = all["companies"] \ (all["roles"] \cup RoleLike)
  BY <1>2 DEF Dimensions
<1>4. m = [k \in Dimensions \cup {"turns"} |-> m[k]] /\ m["turns"] = p["turns"]
  BY <1>2 DEF Dimensions
<1>5. Intake!Merged(p, said) = m BY DEF Intake!Merged
<1> HIDE DEF m
<1> QED BY <1>3, <1>4, <1>5 DEF Sorted

LEMMA ProbingSorted ==
  ASSUME NEW p, Sorted(p)
  PROVE  /\ Sorted(Intake!Probing(p)) /\ Intake!Known(Intake!Probing(p)) = Intake!Known(p)
         /\ Intake!Probing(p)["turns"] = p["turns"] + 1
<1> DEFINE q == Intake!Probing(p)
<1>1. DOMAIN p = Dimensions \cup {"turns"} /\ p["turns"] \in Nat BY DEF Sorted
<1>2. q = [p EXCEPT !["turns"] = p["turns"] + 1] BY DEF Intake!Probing
<1>3. q["turns"] = p["turns"] + 1 BY <1>1, <1>2
<1>4. \A d \in Dimensions : q[d] = p[d] BY <1>1, <1>2 DEF Dimensions
<1>5. q = [k \in Dimensions \cup {"turns"} |-> q[k]] BY <1>1, <1>2
<1>6. Intake!Known(q) = Intake!Known(p)
  <2> HIDE DEF q
  <2> QED BY <1>4 DEF Intake!Known, Intake!Dimensions, Dimensions
<1>7. p["turns"] + 1 \in Nat BY <1>1
<1>8. (q["domains"] \cup q["companies"]) \cap RoleLike = {}
  <2> HIDE DEF q
  <2> QED BY <1>4 DEF Sorted, Dimensions
<1>9. Sorted(q)
  <2> HIDE DEF q
  <2> QED BY <1>3, <1>5, <1>7, <1>8 DEF Sorted
<1> QED BY <1>3, <1>6, <1>9

LEMMA IntakeStep ==
  ASSUME IntakeInv, Intake!IntakeNext \/ UNCHANGED <<loop, intakeVars>> PROVE IntakeInv'
<1>0. /\ IntakeSteps \in Nat /\ {} \in SUBSET Warnings /\ {"loop_tool_failed"} \in SUBSET Warnings
      /\ {"delegated_warning"} \in SUBSET Warnings
  BY AgentsFit DEF Warnings
<1>1. ASSUME NEW tool, NEW w \in SUBSET Warnings, Intake!Uses(tool, w)
      PROVE  LoopFits(loop', IntakeSteps) /\ loop.phase = "running"
  BY <1>0, <1>1, IntakeUses, MovesFit DEF IntakeInv, LoopMoves
<1>2. ASSUME NEW roles, Intake!Open(roles) PROVE IntakeInv'
  <2>1. LoopFits(loop', IntakeSteps)
    BY <1>0, <1>2, StartFits DEF Intake!Open, Intake!Started, Intake!NoText
  <2>2. Sorted(prefs')
    BY <1>2 DEF Intake!Open, IntakeInv, Sorted, Dimensions
  <2> QED BY <1>2, <2>1, <2>2 DEF Intake!Open, IntakeInv
<1>3. ASSUME NEW said \in Said, Intake!Record(said) PROVE IntakeInv'
  <2>1. LoopFits(loop', IntakeSteps) /\ loop.phase = "running" BY <1>0, <1>1, <1>3 DEF Intake!Record
  <2>2. Sorted(prefs') BY <1>3, MergedSorted DEF Intake!Record, IntakeInv
  <2>3. searched' = prefs' BY <1>3, <2>1 DEF Intake!Record, IntakeInv
  <2> QED BY <1>3, <2>1, <2>2, <2>3 DEF Intake!Record, IntakeInv
<1>4. CASE Intake!Preview
  <2>1. LoopFits(loop', IntakeSteps) /\ loop.phase = "running"
    BY <1>0, <1>1, <1>4 DEF Intake!Preview, Intake!Breaks, Intake!AsksAgent
  <2> QED BY <1>4, <2>1 DEF Intake!Preview, IntakeInv
<1>5. ASSUME NEW mat, Intake!Request(mat) PROVE IntakeInv'
  <2>1. LoopFits(loop', IntakeSteps) /\ loop.phase = "running" BY <1>0, <1>1, <1>5 DEF Intake!Request
  <2> QED BY <1>5, <2>1 DEF Intake!Request, IntakeInv
<1>6. CASE Intake!Speak
  <2>1. LoopFits(loop', IntakeSteps) /\ loop.phase = "running"
    BY <1>0, <1>6, IntakeTalks, MovesFit DEF Intake!Speak, IntakeInv, LoopMoves
  <2> QED BY <1>6, <2>1 DEF Intake!Speak, IntakeInv
<1>7. CASE Intake!Deliver
  <2>1. LoopFits(loop', IntakeSteps) /\ loop'.phase # "running"
    BY <1>7 DEF Intake!Deliver, Intake!Idle, LoopFits
  <2>2. Sorted(prefs') BY <1>7, NothingSorted DEF Intake!Deliver
  <2>3. preferred' = prefs \/ preferred' = Intake!Probing(prefs) BY <1>7 DEF Intake!Deliver
  <2>4. /\ Sorted(Intake!Probing(prefs)) /\ Intake!Known(Intake!Probing(prefs)) = Intake!Known(prefs)
        /\ Intake!Probing(prefs)["turns"] = prefs["turns"] + 1
    BY ProbingSorted DEF IntakeInv
  <2>5. Sorted(preferred') BY <2>3, <2>4 DEF IntakeInv
  <2>6. ASSUME intake'.by = "rule", intake'.asks = "preferences", Intake!Known(preferred)' # {}
        PROVE  preferred'["turns"] <= MaxProbes
    <3>1. ~Intake!Sufficient(prefs) /\ preferred' = Intake!Probing(prefs)
      BY <1>7, <2>6 DEF Intake!Deliver
    <3>2. Intake!Known(prefs) # {} BY <2>4, <2>6, <3>1
    <3>3. ~(prefs["turns"] >= MaxProbes) BY <3>1, <3>2 DEF Intake!Sufficient
    <3>4. prefs["turns"] \in Nat /\ MaxProbes \in Nat BY AgentsFit DEF IntakeInv, Sorted
    <3> QED BY <2>4, <3>1, <3>3, <3>4
  <2> QED BY <2>1, <2>2, <2>5, <2>6 DEF IntakeInv
<1>8. CASE UNCHANGED <<loop, intakeVars>>
  BY <1>8 DEF intakeVars, IntakeInv
<1> QED BY <1>2, <1>3, <1>4, <1>5, <1>6, <1>7, <1>8 DEF Intake!IntakeNext

LEMMA IntakeHolds == ASSUME IntakeInv PROVE Intake!IntakeAsksInBounds
BY DEF IntakeInv, Sorted, Intake!IntakeAsksInBounds

\* What a turn knows goes on from what is kept: nothing a user named is taken back, but
\* that a role is moved out of the domains and companies
NothingTakenBack ==
    loop.phase # "idle" => \A d \in Dimensions \ {"domains", "companies"} : preferred[d] \subseteq prefs[d]

LEMMA IntakeGoesOn ==
  ASSUME IntakeInv, NothingTakenBack, Intake!IntakeNext \/ UNCHANGED <<loop, intakeVars>>
  PROVE  NothingTakenBack' /\ Intake!PreferencesStay
<1>1. \A p \in {prefs, preferred} : DOMAIN p = Dimensions \cup {"turns"}
  BY DEF IntakeInv, Sorted
<1>2. ASSUME UNCHANGED preferred PROVE Intake!PreferencesStay
  BY <1>2 DEF Intake!PreferencesStay
<1>3. ASSUME UNCHANGED <<prefs, preferred>>, loop.phase = "running" \/ loop' = loop
      PROVE  NothingTakenBack'
  BY <1>3 DEF NothingTakenBack
<1>4. ASSUME NEW tool, NEW w, Intake!Uses(tool, w) PROVE loop.phase = "running"
  BY <1>4 DEF Intake!Uses, Intake!Running
<1>5. ASSUME NEW roles, Intake!Open(roles) PROVE NothingTakenBack' /\ UNCHANGED preferred
  <2>1. prefs' = [preferred EXCEPT !["roles"] = @ \cup roles] /\ preferred' = preferred
    BY <1>5 DEF Intake!Open
  <2>2. \A d \in Dimensions : preferred[d] \subseteq prefs'[d] BY <1>1, <2>1
  <2> QED BY <2>1, <2>2 DEF NothingTakenBack
<1>6. ASSUME NEW said \in Said, Intake!Record(said) PROVE NothingTakenBack' /\ UNCHANGED preferred
  <2>1. loop.phase = "running" /\ preferred' = preferred BY <1>4, <1>6 DEF Intake!Record
  <2>2. CASE prefs' = prefs BY <2>1, <2>2 DEF NothingTakenBack
  <2>3. CASE prefs' # prefs
    <3>1. prefs' = Intake!Merged(prefs, said) BY <1>6, <2>3 DEF Intake!Record
    <3>2. \A d \in Dimensions \ {"domains", "companies"} : prefs[d] \subseteq prefs'[d]
      BY <1>1, <3>1 DEF Intake!Merged, Dimensions
    <3> QED BY <2>1, <3>2 DEF NothingTakenBack
  <2> QED BY <2>1, <2>2, <2>3
<1>7. CASE Intake!Preview
  <2>1. loop.phase = "running" /\ UNCHANGED <<prefs, preferred>>
    BY <1>4, <1>7 DEF Intake!Preview, Intake!Breaks, Intake!AsksAgent
  <2> QED BY <1>2, <1>3, <2>1
<1>8. ASSUME NEW mat, Intake!Request(mat) PROVE NothingTakenBack' /\ UNCHANGED preferred
  <2>1. loop.phase = "running" /\ UNCHANGED <<prefs, preferred>> BY <1>4, <1>8 DEF Intake!Request
  <2> QED BY <1>3, <2>1
<1>9. CASE Intake!Speak
  <2>1. loop.phase = "running" /\ UNCHANGED <<prefs, preferred>>
    BY <1>9, IntakeTalks DEF Intake!Speak, IntakeInv, LoopMoves
  <2> QED BY <1>2, <1>3, <2>1
<1>10. CASE Intake!Deliver
  <2>1. loop.phase = "over" /\ loop'.phase = "idle" BY <1>10 DEF Intake!Deliver, Intake!Idle
  <2>2. preferred' = prefs \/ preferred' = [prefs EXCEPT !["turns"] = prefs["turns"] + 1]
    BY <1>10 DEF Intake!Deliver, Intake!Probing
  <2>3. \A d \in Dimensions : preferred'[d] = prefs[d] BY <1>1, <2>2 DEF Dimensions
  <2> QED BY <2>1, <2>3 DEF NothingTakenBack, Intake!PreferencesStay, Intake!Dimensions, Dimensions
<1>11. CASE UNCHANGED <<loop, intakeVars>>
  BY <1>2, <1>3, <1>11 DEF intakeVars
<1> QED BY <1>2, <1>5, <1>6, <1>7, <1>8, <1>9, <1>10, <1>11 DEF Intake!IntakeNext

-----------------------------------------------------------------------------
(* The bridge to the web *)

Stages == {"waiting", "turn", "running", "asking", "listening", "concluding", "finishing", "over"}
Underway == {"turn", "running", "asking", "listening"}

\* p is a posting analysis a may report about: its own, if nobody shares its session
Concerns(a, p) == p # "none" /\ (Analyses[a].user = "none" => p = Analyses[a].posting)

\* What one thread, its connection and its session have to do with each other
AnalysisFits(a, w, sent, assets, closed) ==
    /\ "at" \in DOMAIN w /\ w.at \in Stages
    /\ w.at \in Underway \cup {"concluding"} => "posting" \in DOMAIN w
    /\ {"context", "asked", "ended"} \subseteq DOMAIN sent /\ sent.context \in {0, 1}
    /\ w.at = "waiting" \/ (w.at \in Underway /\ w.posting = "none") => sent.context = 0
    /\ sent.ended = <<>> \/ (/\ w.at = "over" /\ sent.ended = <<sent.ended[1]>>
                             /\ sent.ended[1].posting # "none" => Concerns(a, sent.ended[1].posting))
    /\ w.at = "over" /\ ~closed => sent.ended # <<>>
    /\ "posting" \in DOMAIN assets
    /\ w.at \in Underway => Concerns(a, assets.posting)
    /\ w.at = "running" => Concerns(a, w.about)
    /\ w.at = "finishing" => Concerns(a, w.judged)

\* The newest report is the one that was stored last, and it alone is as new
StoreFits(entries, last, nr) ==
    /\ nr \in Nat /\ \A e \in entries : e.nr \in 0 .. nr
    /\ last = "none" \/
         \E e \in entries : e.posting = last /\ \A f \in entries : f # e => f.nr < e.nr

WebInv ==
    /\ DOMAIN worker = Web!Ids /\ DOMAIN channel = Web!Ids /\ DOMAIN shown = Web!Ids
    /\ DOMAIN sessions = Web!Sessions /\ \A s \in Web!Sessions : "posting" \in DOMAIN sessions[s]
    /\ \A a \in Web!Ids : "closed" \in DOMAIN channel[a]
    /\ \A a \in Web!Ids : AnalysisFits(a, worker[a], shown[a], sessions[Web!SessionOf(a)], channel[a].closed)
    /\ StoreFits(recent.entries, recent.last, recent.nr)

LEMMA SessionNames ==
    ASSUME NEW a \in Web!Ids
    PROVE  /\ Web!SessionOf(a) \in Web!Sessions
           /\ Analyses[a].user = "none" =>
                /\ Web!SessionOf(a) = a /\ a \notin ChatSessions
                /\ \A b \in Web!Ids : Web!SessionOf(b) = a => b = a
BY WebFits DEF Web!SessionOf, Web!Sessions, Web!Ids, Web!None

LEMMA WebBegins == ASSUME Web!BridgeInit PROVE WebInv
<1>1. \A a \in Web!Ids : AnalysisFits(a, worker[a], shown[a], sessions[Web!SessionOf(a)], channel[a].closed)
  BY SessionNames DEF Web!BridgeInit, Web!Waiting, Web!NoAssets, AnalysisFits, Stages, Underway
<1>2. StoreFits(recent.entries, recent.last, recent.nr)
  BY DEF Web!BridgeInit, StoreFits, Web!None
<1> QED BY <1>1, <1>2 DEF Web!BridgeInit, WebInv, Web!NoAssets

\* What may become of the assets of a session
AssetsStay ==
    /\ DOMAIN sessions' = Web!Sessions /\ \A s \in Web!Sessions : "posting" \in DOMAIN sessions'[s]
    /\ \A a \in Web!Ids : Concerns(a, sessions[Web!SessionOf(a)].posting) =>
                            Concerns(a, sessions'[Web!SessionOf(a)].posting)

LEMMA AssetsKept ==
    ASSUME WebInv, \A s \in Web!Sessions : sessions'[s].posting = sessions[s].posting /\ "posting" \in DOMAIN sessions'[s],
           DOMAIN sessions' = Web!Sessions
    PROVE  AssetsStay
BY SessionNames DEF AssetsStay

\* A step of one thread: the other ones go on as they were
LEMMA ThreadSteps ==
    ASSUME WebInv, NEW a \in Web!Ids, NEW w, NEW sent, AssetsStay,
           worker' = [worker EXCEPT ![a] = w],
           shown' = [shown EXCEPT ![a] = sent] \/ (shown' = shown /\ sent = shown[a]),
           DOMAIN channel' = Web!Ids,
           \A b \in Web!Ids : "closed" \in DOMAIN channel'[b] /\ channel'[b].closed = channel[b].closed,
           AnalysisFits(a, w, sent, sessions'[Web!SessionOf(a)], channel[a].closed),
           StoreFits(recent.entries, recent.last, recent.nr)'
    PROVE  WebInv'
<1>1. worker'[a] = w /\ shown'[a] = sent BY DEF WebInv
<1>2. ASSUME NEW b \in Web!Ids
      PROVE  AnalysisFits(b, worker'[b], shown'[b], sessions'[Web!SessionOf(b)], channel'[b].closed)
  <2>1. CASE b = a BY <1>1, <2>1
  <2>2. CASE b # a
    <3>1. worker'[b] = worker[b] /\ shown'[b] = shown[b] BY <2>2 DEF WebInv
    <3>2. "posting" \in DOMAIN sessions'[Web!SessionOf(b)] BY SessionNames DEF AssetsStay
    <3> QED BY <3>1, <3>2 DEF WebInv, AnalysisFits, AssetsStay
  <2> QED BY <2>1, <2>2
<1> QED BY <1>2 DEF WebInv, AssetsStay, Web!Ids, Web!Sessions, Web!SessionOf, Web!None

LEMMA Emitted ==
    ASSUME WebInv, NEW a \in Web!Ids, NEW what, Web!Emit(a, what)
    PROVE  \E sent : /\ shown' = [shown EXCEPT ![a] = sent] \/ (shown' = shown /\ sent = shown[a])
                     /\ IF channel[a].closed THEN sent = shown[a] ELSE sent = what
<1>1. CASE channel[a].closed BY <1>1 DEF Web!Emit, Web!Open
<1>2. CASE ~channel[a].closed BY <1>2 DEF Web!Emit, Web!Open
<1> QED BY <1>1, <1>2

\* The one entry that is added is the newest, and stays
LEMMA RememberedFits ==
    ASSUME NEW p, StoreFits(recent.entries, recent.last, recent.nr)
    PROVE  StoreFits(Web!Remembered(p), p, recent.nr + 1)
<1> DEFINE new == [posting |-> p, nr |-> recent.nr + 1]
           others == {e \in recent.entries : Web!Key(e.posting) # Web!Key(p)}
           all == others \cup {new}
<1>1. /\ recent.nr \in Nat /\ \A e \in others : e.nr \in Nat /\ e.nr < recent.nr + 1
      /\ new.nr = recent.nr + 1 /\ new.posting = p
  BY DEF StoreFits
<1>2. ASSUME new \in Web!Oldest(all), Web!Cardinality(all) > MaxEntries PROVE FALSE
  <2>1. others = {} BY <1>1, <1>2 DEF Web!Oldest
  <2>2. all = {new} BY <2>1
  <2>3. Web!Cardinality(all) = 1
    <3>1. Web!Cardinality(all) = Cardinality(all)
      BY DEF Web!Cardinality, Cardinality, Web!IsFiniteSet, IsFiniteSet
    <3> HIDE DEF new
    <3> QED BY <2>2, <3>1, FS_Singleton
  <2> QED BY <1>2, <2>3, WebFits
<1>3. new \in Web!Remembered(p) /\ Web!Remembered(p) \subseteq all
  BY <1>2 DEF Web!Remembered
<1>4. \A e \in Web!Remembered(p) : e.nr \in 0 .. recent.nr + 1 /\ (e # new => e.nr < new.nr)
  <2> SUFFICES ASSUME NEW e \in all PROVE e.nr \in 0 .. recent.nr + 1 /\ (e # new => e.nr < new.nr)
    BY <1>3
  <2>1. CASE e = new BY <1>1, <2>1
  <2>2. CASE e \in others BY <1>1, <2>2
  <2> QED BY <2>1, <2>2
<1> HIDE DEF new
<1> QED BY <1>1, <1>3, <1>4 DEF StoreFits

LEMMA Silent ==
    ASSUME NEW a, NEW w, NEW sent, NEW assets, NEW closed, AnalysisFits(a, w, sent, assets, closed), w.at # "over"
    PROVE  sent.ended = <<>>
BY DEF AnalysisFits

LEMMA WebStarts ==
    ASSUME WebInv, NEW a \in Web!Ids, Web!Start(a) PROVE WebInv'
<1> DEFINE s == Web!SessionOf(a)
<1>1. /\ AnalysisFits(a, worker[a], shown[a], sessions[s], channel[a].closed) /\ s \in Web!Sessions
      /\ worker[a].at = "waiting" /\ ~channel[a].closed /\ "posting" \in DOMAIN sessions[s]
  BY SessionNames DEF WebInv, Web!Start, Web!Waiting, Web!Open
<1>2. /\ DOMAIN channel' = Web!Ids
      /\ \A b \in Web!Ids : "closed" \in DOMAIN channel'[b] /\ channel'[b].closed = channel[b].closed
      /\ StoreFits(recent.entries, recent.last, recent.nr)'
  BY DEF WebInv, Web!Start
<1>3. CASE Web!Resolved(a)
  <2> DEFINE w == [at |-> "turn", turn |-> 1, posting |-> "none", judged |-> "none"]
  <2>1. worker' = [worker EXCEPT ![a] = w] /\ shown' = shown
    BY <1>3 DEF Web!Start, Web!None
  <2>2. /\ DOMAIN sessions' = Web!Sessions
        /\ \A t \in Web!Sessions : t # s => sessions'[t] = sessions[t]
        /\ "posting" \in DOMAIN sessions'[s] /\ sessions'[s].posting = Analyses[a].posting
    BY <1>1, <1>3 DEF Web!Start, WebInv
  <2>3. AssetsStay
    <3>1. ASSUME NEW b \in Web!Ids, Concerns(b, sessions[Web!SessionOf(b)].posting)
          PROVE  Concerns(b, sessions'[Web!SessionOf(b)].posting)
      <4>1. CASE Web!SessionOf(b) = s
        <5>1. Analyses[b].user = "none" => a = b BY <4>1, SessionNames
        <5> QED BY <2>2, <4>1, <5>1, WebFits DEF Concerns, Web!Ids
      <4>2. CASE Web!SessionOf(b) # s BY <2>2, <3>1, <4>2, SessionNames
      <4> QED BY <4>1, <4>2
    <3> QED BY <2>2, <3>1 DEF AssetsStay, WebInv
  <2>4. AnalysisFits(a, w, shown[a], sessions'[s], channel[a].closed)
    <3>1. Concerns(a, sessions'[s].posting) BY <2>2, WebFits DEF Concerns, Web!Ids
    <3>2. shown[a].ended = <<>> BY <1>1, Silent
    <3> QED BY <1>1, <2>2, <3>1, <3>2 DEF AnalysisFits, Stages, Underway
  <2> HIDE DEF w
  <2> QED BY <1>2, <2>1, <2>3, <2>4, ThreadSteps
<1>4. CASE ~Web!Resolved(a)
  <2> DEFINE w == [at |-> "over"]
             end == [kind |-> "error", posting |-> "none"]
  <2>1. worker' = [worker EXCEPT ![a] = w] /\ sessions' = sessions /\ Web!Emit(a, Web!Ended(a, end))
    BY <1>4 DEF Web!Start, Web!None
  <2>2. AssetsStay BY <2>1, AssetsKept DEF WebInv
  <2>3. PICK sent : /\ shown' = [shown EXCEPT ![a] = sent] \/ (shown' = shown /\ sent = shown[a])
                    /\ IF channel[a].closed THEN sent = shown[a] ELSE sent = Web!Ended(a, end)
    BY <2>1, Emitted
  <2>4. AnalysisFits(a, w, sent, sessions'[s], channel[a].closed)
    <3>1. shown[a].ended = <<>> BY <1>1, Silent
    <3> QED BY <1>1, <2>1, <2>3, <3>1 DEF AnalysisFits, Stages, Underway, Web!Ended
  <2> HIDE DEF w
  <2> QED BY <1>2, <2>1, <2>2, <2>3, <2>4, ThreadSteps
<1> QED BY <1>3, <1>4

\* What every step but the last leaves alone
LEMMA Undisturbed ==
    ASSUME WebInv, NEW a \in Web!Ids,
           UNCHANGED sessions /\ UNCHANGED recent,
           DOMAIN channel' = Web!Ids,
           \A b \in Web!Ids : "closed" \in DOMAIN channel'[b] /\ channel'[b].closed = channel[b].closed
    PROVE  /\ AnalysisFits(a, worker[a], shown[a], sessions'[Web!SessionOf(a)], channel[a].closed)
           /\ AssetsStay /\ StoreFits(recent.entries, recent.last, recent.nr)'
<1>1. AssetsStay BY AssetsKept DEF WebInv
<1> QED BY <1>1 DEF WebInv

LEMMA WebTurnBegins ==
    ASSUME WebInv, NEW a \in Web!Ids, Web!BeginTurn(a) PROVE WebInv'
<1> DEFINE s == Web!SessionOf(a)
<1>1. /\ AnalysisFits(a, worker[a], shown[a], sessions'[s], channel[a].closed) /\ AssetsStay
      /\ StoreFits(recent.entries, recent.last, recent.nr)'
      /\ DOMAIN channel' = Web!Ids
      /\ \A b \in Web!Ids : "closed" \in DOMAIN channel'[b] /\ channel'[b].closed = channel[b].closed
  BY Undisturbed DEF Web!BeginTurn, WebInv
<1>2. worker[a].at = "turn" /\ shown' = shown /\ sessions' = sessions BY DEF Web!BeginTurn
<1>3. shown[a].ended = <<>> BY <1>1, <1>2, Silent
<1>4. PICK w : /\ worker' = [worker EXCEPT ![a] = w]
               /\ \/ w = [at |-> "over"] /\ channel[a].closed
                  \/ w = [worker[a] EXCEPT !.at = "concluding"]
                  \/ w = [at |-> "running", turn |-> worker[a].turn, posting |-> worker[a].posting,
                          judged |-> worker[a].judged, about |-> sessions[s].posting]
  <2>1. CASE ~Web!Open(a) BY <2>1 DEF Web!BeginTurn, Web!Open
  <2>2. CASE Web!Open(a) /\ worker[a].turn > WebTurns BY <2>2 DEF Web!BeginTurn, WebInv
  <2>3. CASE Web!Open(a) /\ ~(worker[a].turn > WebTurns) BY <2>3 DEF Web!BeginTurn, WebInv
  <2> QED BY <2>1, <2>2, <2>3
<1>5. AnalysisFits(a, w, shown[a], sessions'[s], channel[a].closed)
  <2>1. CASE w = [at |-> "over"] /\ channel[a].closed
    BY <1>1, <1>3, <2>1 DEF AnalysisFits, Stages, Underway
  <2>2. CASE w = [worker[a] EXCEPT !.at = "concluding"]
    BY <1>1, <1>2, <1>3, <2>2 DEF AnalysisFits, Stages, Underway
  <2>3. CASE w = [at |-> "running", turn |-> worker[a].turn, posting |-> worker[a].posting,
                  judged |-> worker[a].judged, about |-> sessions[s].posting]
    <3> DEFINE q == [at |-> "running", turn |-> worker[a].turn, posting |-> worker[a].posting,
                     judged |-> worker[a].judged, about |-> sessions[s].posting]
    <3>1. "at" \in DOMAIN q /\ "posting" \in DOMAIN q /\ q.at = "running" /\ q.posting = worker[a].posting
          /\ q.about = sessions[s].posting
      OBVIOUS
    <3>2. q = w BY <2>3
    <3> HIDE DEF q
    <3> QED BY <1>1, <1>2, <1>3, <3>1, <3>2 DEF AnalysisFits, Stages, Underway
  <2> QED BY <1>4, <2>1, <2>2, <2>3
<1> QED BY <1>1, <1>2, <1>4, <1>5, ThreadSteps

LEMMA WebTurnEnds ==
    ASSUME WebInv, NEW a \in Web!Ids, NEW o, Web!EndTurn(a, o) PROVE WebInv'
<1> DEFINE s == Web!SessionOf(a)
           read == ~o.fails /\ o.reads /\ worker[a].posting = "none"
           failed == Web!Ended(a, [kind |-> "error", posting |-> "none"])
           seen == IF read THEN [shown[a] EXCEPT !.context = @ + 1] ELSE shown[a]
           said == IF o.fails THEN failed ELSE seen
           next == [at |-> IF o.asks = <<>> THEN "concluding" ELSE "asking", turn |-> worker[a].turn,
                    posting |-> IF read THEN worker[a].about ELSE worker[a].posting, judged |-> "none",
                    asks |-> o.asks, said |-> FALSE]
           w == IF o.fails \/ ~Web!Open(a) THEN [at |-> "over"]
                ELSE IF o.judges THEN [at |-> "finishing", judged |-> worker[a].about] ELSE next
<1>1. /\ AnalysisFits(a, worker[a], shown[a], sessions'[s], channel[a].closed) /\ AssetsStay
      /\ StoreFits(recent.entries, recent.last, recent.nr)'
      /\ DOMAIN channel' = Web!Ids
      /\ \A b \in Web!Ids : "closed" \in DOMAIN channel'[b] /\ channel'[b].closed = channel[b].closed
  BY Undisturbed DEF Web!EndTurn, WebInv
<1>2. /\ worker[a].at = "running" /\ worker' = [worker EXCEPT ![a] = w] /\ Web!Emit(a, said)
  BY DEF Web!EndTurn, Web!None
<1>3. shown[a].ended = <<>> BY <1>1, <1>2, Silent
<1>4. PICK sent : /\ shown' = [shown EXCEPT ![a] = sent] \/ (shown' = shown /\ sent = shown[a])
                  /\ IF channel[a].closed THEN sent = shown[a] ELSE sent = said
  <2> HIDE DEF said
  <2> QED BY <1>2, Emitted
<1>5. /\ {"context", "asked", "ended"} \subseteq DOMAIN seen /\ seen.context \in {0, 1} /\ seen.ended = <<>>
      /\ ~read /\ worker[a].posting = "none" => seen.context = 0
  BY <1>1, <1>2, <1>3 DEF AnalysisFits, Stages, Underway
<1>6. /\ {"context", "asked", "ended"} \subseteq DOMAIN failed /\ failed.context \in {0, 1}
      /\ failed.ended = <<failed.ended[1]>> /\ failed.ended[1].posting = "none"
  BY <1>1, <1>2, <1>3 DEF AnalysisFits, Web!Ended
<1>7. /\ "at" \in DOMAIN next /\ "posting" \in DOMAIN next /\ next.at \in {"concluding", "asking"}
      /\ next.posting = IF read THEN worker[a].about ELSE worker[a].posting
  OBVIOUS
<1>8. AnalysisFits(a, w, sent, sessions'[s], channel[a].closed)
  <2>1. CASE channel[a].closed
    BY <1>1, <1>2, <1>3, <1>4, <2>1 DEF AnalysisFits, Stages, Underway, Web!Open
  <2>2. CASE ~channel[a].closed /\ o.fails
    BY <1>1, <1>4, <1>6, <2>2 DEF AnalysisFits, Stages, Underway
  <2>3. CASE ~channel[a].closed /\ ~o.fails /\ o.judges
    <3>1. w = [at |-> "finishing", judged |-> worker[a].about] /\ sent = seen
      BY <1>4, <2>3 DEF Web!Open
    <3> HIDE DEF w, seen
    <3> QED BY <1>1, <1>2, <1>5, <3>1 DEF AnalysisFits, Stages, Underway
  <2>4. CASE ~channel[a].closed /\ ~o.fails /\ ~o.judges
    <3>1. w = next /\ sent = seen BY <1>4, <2>4 DEF Web!Open
    <3>2. worker[a].about # "none" /\ Concerns(a, sessions'[s].posting)
      BY <1>1, <1>2 DEF AnalysisFits, Underway, Concerns
    <3> HIDE DEF w, seen, next, read
    <3> QED BY <1>1, <1>2, <1>5, <1>7, <3>1, <3>2 DEF AnalysisFits, Stages, Underway
  <2> QED BY <2>1, <2>2, <2>3, <2>4
<1> HIDE DEF w
<1> QED BY <1>1, <1>2, <1>4, <1>8, ThreadSteps

LEMMA WebAsks ==
    ASSUME WebInv, NEW a \in Web!Ids, Web!Ask(a) PROVE WebInv'
<1> DEFINE s == Web!SessionOf(a)
           asked == [shown[a] EXCEPT !.asked = Append(@, Head(worker[a].asks))]
<1>1. /\ AnalysisFits(a, worker[a], shown[a], sessions'[s], channel[a].closed) /\ AssetsStay
      /\ StoreFits(recent.entries, recent.last, recent.nr)'
      /\ DOMAIN channel' = Web!Ids
      /\ \A b \in Web!Ids : "closed" \in DOMAIN channel'[b] /\ channel'[b].closed = channel[b].closed
  BY Undisturbed DEF Web!Ask, WebInv
<1>2. worker[a].at = "asking" BY DEF Web!Ask
<1>3. shown[a].ended = <<>> BY <1>1, <1>2, Silent
<1>4. CASE channel[a].closed
  <2> DEFINE w == [at |-> "over"]
  <2>1. worker' = [worker EXCEPT ![a] = w] /\ shown' = shown BY <1>4 DEF Web!Ask, Web!Open
  <2>2. AnalysisFits(a, w, shown[a], sessions'[s], channel[a].closed)
    BY <1>1, <1>3, <1>4 DEF AnalysisFits, Stages, Underway
  <2> HIDE DEF w
  <2> QED BY <1>1, <2>1, <2>2, ThreadSteps
<1>5. CASE ~channel[a].closed
  <2> DEFINE w == [worker[a] EXCEPT !.at = "listening"]
  <2>1. worker' = [worker EXCEPT ![a] = w] /\ shown' = [shown EXCEPT ![a] = asked]
    BY <1>5 DEF Web!Ask, Web!Open, Web!Emit, WebInv
  <2>2. AnalysisFits(a, w, asked, sessions'[s], channel[a].closed)
    BY <1>1, <1>2, <1>3 DEF AnalysisFits, Stages, Underway
  <2> HIDE DEF w, asked
  <2> QED BY <1>1, <2>1, <2>2, ThreadSteps
<1> QED BY <1>4, <1>5

\* An answer, or none, changes where a thread goes on and not what it is about
LEMMA AfterFits ==
    ASSUME NEW a \in Web!Ids, NEW got \in BOOLEAN, NEW sent, NEW assets, NEW closed,
           AnalysisFits(a, worker[a], sent, assets, closed), worker[a].at = "listening"
    PROVE  AnalysisFits(a, Web!After(a, got), sent, assets, closed)
<1> DEFINE w == Web!After(a, got)
<1>1. /\ "at" \in DOMAIN worker[a] /\ "posting" \in DOMAIN worker[a] /\ sent.ended = <<>>
      /\ Concerns(a, assets.posting)
  BY DEF AnalysisFits, Underway
<1>2. /\ "at" \in DOMAIN w /\ "posting" \in DOMAIN w /\ w.posting = worker[a].posting
      /\ w.at \in {"turn", "concluding", "asking"}
  BY <1>1 DEF Web!After
<1>3. /\ {"context", "asked", "ended"} \subseteq DOMAIN sent /\ sent.context \in {0, 1}
      /\ worker[a].posting = "none" => sent.context = 0
      /\ "posting" \in DOMAIN assets
  BY DEF AnalysisFits, Underway
<1>4. AnalysisFits(a, w, sent, assets, closed)
  <2> HIDE DEF w
  <2> QED BY <1>1, <1>2, <1>3 DEF AnalysisFits, Stages, Underway
<1> QED BY <1>4

LEMMA WebHears ==
    ASSUME WebInv, NEW a \in Web!Ids, Web!Hear(a) PROVE WebInv'
<1> DEFINE s == Web!SessionOf(a)
           got == Head(channel[a].answers).text # ""
           w == IF channel[a].closed /\ Head(worker[a].asks) # "resume" THEN [at |-> "over"]
                ELSE Web!After(a, got)
<1>1. /\ AnalysisFits(a, worker[a], shown[a], sessions[s], channel[a].closed) /\ s \in Web!Sessions
      /\ StoreFits(recent.entries, recent.last, recent.nr)' /\ worker[a].at = "listening" /\ shown' = shown
  BY SessionNames DEF Web!Hear, WebInv
<1>2. worker' = [worker EXCEPT ![a] = w] BY DEF Web!Hear, Web!Open
<1>3. DOMAIN channel' = Web!Ids
      /\ \A b \in Web!Ids : "closed" \in DOMAIN channel'[b] /\ channel'[b].closed = channel[b].closed
  <2>1. channel' = [channel EXCEPT ![a] = [channel[a] EXCEPT !.answers = Tail(channel[a].answers)]]
    BY DEF Web!Hear
  <2>2. DOMAIN channel = Web!Ids /\ \A b \in Web!Ids : "closed" \in DOMAIN channel[b] BY DEF WebInv
  <2> QED BY <2>1, <2>2
<1>4. AssetsStay
  <2>1. sessions' = [sessions EXCEPT ![s].resume = TRUE] \/ sessions' = sessions BY DEF Web!Hear
  <2>2. DOMAIN sessions' = Web!Sessions
        /\ \A t \in Web!Sessions : sessions'[t].posting = sessions[t].posting /\ "posting" \in DOMAIN sessions'[t]
    BY <2>1 DEF WebInv
  <2> QED BY <2>2, AssetsKept
<1>5. AnalysisFits(a, worker[a], shown[a], sessions'[s], channel[a].closed)
  BY <1>1, <1>4 DEF AnalysisFits, AssetsStay, Underway
<1>6. AnalysisFits(a, w, shown[a], sessions'[s], channel[a].closed)
  <2>1. CASE channel[a].closed /\ Head(worker[a].asks) # "resume"
    <3>1. shown[a].ended = <<>> BY <1>1, Silent
    <3> QED BY <1>5, <2>1, <3>1 DEF AnalysisFits, Stages, Underway
  <2>2. CASE ~(channel[a].closed /\ Head(worker[a].asks) # "resume")
    <3>1. w = Web!After(a, got) /\ got \in BOOLEAN BY <2>2
    <3> HIDE DEF got, w
    <3> QED BY <1>1, <1>5, <3>1, AfterFits
  <2> QED BY <2>1, <2>2
<1> HIDE DEF w
<1> QED BY <1>1, <1>2, <1>3, <1>4, <1>6, ThreadSteps

LEMMA WebGivesUp ==
    ASSUME WebInv, NEW a \in Web!Ids, Web!GiveUp(a) PROVE WebInv'
<1> DEFINE s == Web!SessionOf(a)
<1>1. /\ AnalysisFits(a, worker[a], shown[a], sessions'[s], channel[a].closed) /\ AssetsStay
      /\ StoreFits(recent.entries, recent.last, recent.nr)'
      /\ DOMAIN channel' = Web!Ids
      /\ \A b \in Web!Ids : "closed" \in DOMAIN channel'[b] /\ channel'[b].closed = channel[b].closed
  BY Undisturbed DEF Web!GiveUp, WebInv
<1>2. worker' = [worker EXCEPT ![a] = Web!After(a, FALSE)] /\ shown' = shown /\ worker[a].at = "listening"
  BY DEF Web!GiveUp
<1>3. AnalysisFits(a, Web!After(a, FALSE), shown[a], sessions'[s], channel[a].closed)
  BY <1>1, <1>2, AfterFits
<1> QED BY <1>1, <1>2, <1>3, ThreadSteps

LEMMA WebConcludes ==
    ASSUME WebInv, NEW a \in Web!Ids, Web!Conclude(a) PROVE WebInv'
<1> DEFINE s == Web!SessionOf(a)
           w == [at |-> "over"]
<1>1. /\ AnalysisFits(a, worker[a], shown[a], sessions'[s], channel[a].closed) /\ AssetsStay
      /\ StoreFits(recent.entries, recent.last, recent.nr)'
      /\ DOMAIN channel' = Web!Ids
      /\ \A b \in Web!Ids : "closed" \in DOMAIN channel'[b] /\ channel'[b].closed = channel[b].closed
  BY Undisturbed DEF Web!Conclude, WebInv
<1>2. worker[a].at = "concluding" /\ worker' = [worker EXCEPT ![a] = w] /\ Web!Emit(a, Web!Unjudged(a))
  BY DEF Web!Conclude
<1>3. shown[a].ended = <<>> BY <1>1, <1>2, Silent
<1>4. PICK sent : /\ shown' = [shown EXCEPT ![a] = sent] \/ (shown' = shown /\ sent = shown[a])
                  /\ IF channel[a].closed THEN sent = shown[a] ELSE sent = Web!Unjudged(a)
  BY <1>2, Emitted
<1>5. AnalysisFits(a, w, sent, sessions'[s], channel[a].closed)
  BY <1>1, <1>3, <1>4 DEF AnalysisFits, Stages, Underway, Web!Unjudged, Web!Ended, Web!None
<1> HIDE DEF w
<1> QED BY <1>1, <1>2, <1>4, <1>5, ThreadSteps

LEMMA WebFinishes ==
    ASSUME WebInv, NEW a \in Web!Ids, Web!Finish(a) PROVE WebInv'
<1> DEFINE s == Web!SessionOf(a)
           w == [at |-> "over"]
           p == worker[a].judged
           done == Web!Ended(a, [kind |-> "done", posting |-> p])
<1>1. /\ AnalysisFits(a, worker[a], shown[a], sessions[s], channel[a].closed) /\ s \in Web!Sessions
      /\ StoreFits(recent.entries, recent.last, recent.nr) /\ worker[a].at = "finishing"
  BY SessionNames DEF Web!Finish, WebInv
<1>2. worker' = [worker EXCEPT ![a] = w] /\ Web!Emit(a, done) /\ channel' = channel
      /\ recent' = [entries |-> Web!Remembered(p), last |-> p, nr |-> recent.nr + 1]
  BY DEF Web!Finish
<1>3. DOMAIN channel' = Web!Ids
      /\ \A b \in Web!Ids : "closed" \in DOMAIN channel'[b] /\ channel'[b].closed = channel[b].closed
  BY <1>2 DEF WebInv
<1>4. AssetsStay
  <2>1. sessions' = [sessions EXCEPT ![s].analysis = p] BY DEF Web!Finish
  <2>2. DOMAIN sessions' = Web!Sessions
        /\ \A t \in Web!Sessions : sessions'[t].posting = sessions[t].posting /\ "posting" \in DOMAIN sessions'[t]
    BY <2>1 DEF WebInv
  <2> QED BY <2>2, AssetsKept
<1>5. shown[a].ended = <<>> BY <1>1, Silent
<1>6. PICK sent : /\ shown' = [shown EXCEPT ![a] = sent] \/ (shown' = shown /\ sent = shown[a])
                  /\ IF channel[a].closed THEN sent = shown[a] ELSE sent = done
  <2> HIDE DEF done
  <2> QED BY <1>2, Emitted
<1>7. "posting" \in DOMAIN sessions'[s] BY <1>1, <1>4 DEF AssetsStay
<1>8. AnalysisFits(a, w, sent, sessions'[s], channel[a].closed)
  <2>1. /\ {"context", "asked", "ended"} \subseteq DOMAIN sent /\ sent.context \in {0, 1}
        /\ sent.ended = <<>> \/ (sent.ended = <<sent.ended[1]>> /\ sent.ended[1].posting = p)
        /\ ~channel[a].closed => sent.ended # <<>>
    <3> DEFINE e == [kind |-> "done", posting |-> p]
    <3>1. Append(<<>>, e) = <<e>> /\ <<e>>[1] = e /\ <<e>> # <<>> /\ e.posting = p OBVIOUS
    <3> HIDE DEF e
    <3>2. done = [shown[a] EXCEPT !.ended = <<e>>] BY <1>5, <3>1 DEF Web!Ended, e
    <3> HIDE DEF done
    <3> QED BY <1>1, <1>5, <1>6, <3>1, <3>2 DEF AnalysisFits
  <2>2. Concerns(a, p) BY <1>1 DEF AnalysisFits
  <2> HIDE DEF p
  <2> QED BY <1>7, <2>1, <2>2 DEF AnalysisFits, Stages, Underway
<1>9. StoreFits(recent.entries, recent.last, recent.nr)'
  <2> HIDE DEF p
  <2>1. StoreFits(Web!Remembered(p), p, recent.nr + 1) BY <1>1, RememberedFits
  <2>2. recent'.entries = Web!Remembered(p) /\ recent'.last = p /\ recent'.nr = recent.nr + 1 BY <1>2
  <2> QED BY <2>1, <2>2 DEF StoreFits
<1> HIDE DEF w, p
<1> QED BY <1>2, <1>3, <1>4, <1>6, <1>8, <1>9, ThreadSteps

LEMMA WebStep ==
    ASSUME WebInv, Web!BridgeNext \/ UNCHANGED webVars PROVE WebInv'
<1>1. ASSUME NEW a \in Web!Ids, NEW text, Web!UserAnswers(a, text) PROVE WebInv'
  <2>1. DOMAIN channel' = Web!Ids
      /\ \A b \in Web!Ids : "closed" \in DOMAIN channel'[b] /\ channel'[b].closed = channel[b].closed
    BY <1>1 DEF Web!UserAnswers, WebInv
  <2> QED BY <1>1, <2>1 DEF Web!UserAnswers, WebInv, Web!Ids, Web!Sessions, Web!SessionOf, Web!None
<1>2. ASSUME NEW a \in Web!Ids, Web!Disconnect(a) PROVE WebInv'
  <2>1. DOMAIN channel' = Web!Ids /\ \A b \in Web!Ids :
           "closed" \in DOMAIN channel'[b] /\ (channel'[b].closed = channel[b].closed \/ channel'[b].closed)
    BY <1>2 DEF Web!Disconnect, WebInv
  <2>2. ASSUME NEW b \in Web!Ids
        PROVE  AnalysisFits(b, worker[b], shown[b], sessions[Web!SessionOf(b)], channel'[b].closed)
    BY <2>1 DEF AnalysisFits, WebInv
  <2> QED BY <1>2, <2>1, <2>2 DEF Web!Disconnect, WebInv, Web!Ids, Web!Sessions, Web!SessionOf, Web!None
<1>3. ASSUME NEW s \in ChatSessions,
             NEW given \in {Analyses[a].posting : a \in Web!Ids} \cup {"none"}, NEW reads, NEW judges,
             Web!Chat(s, given, reads, judges)
      PROVE  WebInv'
  <2>1. s \in Web!Sessions BY DEF Web!Sessions
  <2>2. /\ DOMAIN sessions' = Web!Sessions /\ \A t \in Web!Sessions : t # s => sessions'[t] = sessions[t]
        /\ "posting" \in DOMAIN sessions'[s]
        /\ sessions'[s].posting = IF given = "none" THEN sessions[s].posting ELSE given
    BY <1>3, <2>1 DEF Web!Chat, Web!Promoted, Web!Panel, WebInv, Web!None
  <2>3. AssetsStay
    <3>1. ASSUME NEW b \in Web!Ids, Concerns(b, sessions[Web!SessionOf(b)].posting)
          PROVE  Concerns(b, sessions'[Web!SessionOf(b)].posting)
      <4>1. CASE Web!SessionOf(b) = s
        <5>1. Analyses[b].user # "none" BY <4>1, SessionNames
        <5> QED BY <2>2, <3>1, <4>1, <5>1 DEF Concerns
      <4>2. CASE Web!SessionOf(b) # s BY <2>2, <3>1, <4>2, SessionNames
      <4> QED BY <4>1, <4>2
    <3>2. \A t \in Web!Sessions : "posting" \in DOMAIN sessions'[t] BY <2>2 DEF WebInv
    <3> QED BY <2>2, <3>1, <3>2 DEF AssetsStay
  <2>4. ASSUME NEW b \in Web!Ids
        PROVE  AnalysisFits(b, worker[b], shown[b], sessions'[Web!SessionOf(b)], channel[b].closed)
    <3>1. "posting" \in DOMAIN sessions'[Web!SessionOf(b)] BY <2>3, SessionNames DEF AssetsStay
    <3> QED BY <2>3, <3>1 DEF AssetsStay, AnalysisFits, WebInv
  <2> QED BY <1>3, <2>3, <2>4
      DEF Web!Chat, WebInv, AssetsStay, Web!Ids, Web!Sessions, Web!SessionOf, Web!None
<1>4. CASE UNCHANGED webVars
  BY <1>4 DEF webVars, WebInv, Web!Ids, Web!Sessions, Web!SessionOf, Web!None
<1> QED
  BY <1>1, <1>2, <1>3, <1>4, WebStarts, WebTurnBegins, WebTurnEnds, WebAsks, WebHears, WebGivesUp,
     WebFinishes, WebConcludes DEF Web!BridgeNext, Web!None

\* Of the entries that fit, the one that was stored last is the newest
LEMMA NewestFound ==
    ASSUME NEW e, NEW found, e \in found, found \subseteq recent.entries, \A f \in recent.entries : f.nr \in Nat,
           \A f \in recent.entries : f # e => f.nr < e.nr
    PROVE  (CHOOSE x \in found : \A f \in found : f.nr <= x.nr) = e
<1> DEFINE x == CHOOSE x \in found : \A f \in found : f.nr <= x.nr
<1>1. \A f \in found : f.nr <= e.nr OBVIOUS
<1>2. x \in found /\ \A f \in found : f.nr <= x.nr BY <1>1
<1> HIDE DEF x
<1>3. x = e BY <1>2
<1> QED BY <1>3 DEF x

LEMMA AtMostOne ==
    ASSUME NEW s, s = <<>> \/ \E e : s = <<e>> PROVE Len(s) <= 1
<1>1. Len(<<>>) = 0 OBVIOUS
<1>2. ASSUME NEW e, s = <<e>> PROVE Len(s) <= 1
  <2>1. Len(<<e>>) = 1 OBVIOUS
  <2> QED BY <1>2, <2>1
<1> QED BY <1>1, <1>2

LEMMA WebHolds == ASSUME WebInv PROVE Web!EndsOnce /\ Web!OwnReport /\ Web!NewestIsRecalled
<1>1. Web!EndsOnce
  <2> SUFFICES ASSUME NEW a \in Web!Ids
               PROVE  /\ Len(shown[a].ended) <= 1 /\ shown[a].context <= 1
                      /\ shown[a].ended # <<>> => worker[a].at = "over"
                      /\ (worker[a].at = "over" /\ Web!Open(a)) => shown[a].ended # <<>>
    BY DEF Web!EndsOnce
  <2>1. AnalysisFits(a, worker[a], shown[a], sessions[Web!SessionOf(a)], channel[a].closed) BY DEF WebInv
  <2>2. shown[a].ended = <<>> \/ shown[a].ended = <<shown[a].ended[1]>> BY <2>1 DEF AnalysisFits
  <2>3. Len(shown[a].ended) <= 1 BY <2>2, AtMostOne
  <2> QED BY <2>1, <2>3 DEF AnalysisFits, Web!Open
<1>2. Web!OwnReport
  <2> SUFFICES ASSUME NEW a \in Web!Ids, NEW i \in DOMAIN shown[a].ended,
                      Analyses[a].user = "none", shown[a].ended[i].posting # "none"
               PROVE  shown[a].ended[i].posting = Analyses[a].posting
    BY DEF Web!OwnReport, Web!None
  <2>1. i = 1 BY DEF WebInv, AnalysisFits
  <2> QED BY <2>1 DEF WebInv, AnalysisFits, Concerns
<1>3. ASSUME recent.last # "none"
      PROVE  LET p == recent.last
             IN  /\ Web!Recall(CompanyOf[p], RoleOf[p]) = p
                 /\ (\A e \in recent.entries : Web!Key(e.posting) # <<CompanyOf[p], "">>) =>
                      Web!Recall(CompanyOf[p], "") = p
  <2> DEFINE p == recent.last
             Same(company, role) == {e \in recent.entries : Web!Key(e.posting) = <<company, role>>}
             Some(company) == {e \in recent.entries : company # "" /\ CompanyOf[e.posting] = company}
  <2>1. PICK e \in recent.entries : e.posting = p /\ \A f \in recent.entries : f # e => f.nr < e.nr
    BY <1>3 DEF WebInv, StoreFits
  <2>2. \A f \in recent.entries : f.nr \in Nat BY DEF WebInv, StoreFits
  <2>3. Web!Recall(CompanyOf[p], RoleOf[p]) = p
    <3>1. e \in Same(CompanyOf[p], RoleOf[p]) BY <2>1 DEF Web!Key
    <3>2. (CHOOSE x \in Same(CompanyOf[p], RoleOf[p]) :
             \A f \in Same(CompanyOf[p], RoleOf[p]) : f.nr <= x.nr) = e
      BY <2>1, <2>2, <3>1, NewestFound
    <3> QED BY <2>1, <3>1, <3>2 DEF Web!Recall
  <2>4. ASSUME \A f \in recent.entries : Web!Key(f.posting) # <<CompanyOf[p], "">>
        PROVE  Web!Recall(CompanyOf[p], "") = p
    <3>1. Same(CompanyOf[p], "") = {} BY <2>4
    <3>2. CASE CompanyOf[p] = "" BY <3>1, <3>2 DEF Web!Recall
    <3>3. CASE CompanyOf[p] # ""
      <4>1. e \in Some(CompanyOf[p]) BY <2>1, <3>3
      <4>2. (CHOOSE x \in Some(CompanyOf[p]) : \A f \in Some(CompanyOf[p]) : f.nr <= x.nr) = e
        BY <2>1, <2>2, <4>1, NewestFound
      <4> QED BY <2>1, <3>1, <4>1, <4>2 DEF Web!Recall
    <3> QED BY <3>2, <3>3
  <2> QED BY <2>3, <2>4
<1> QED BY <1>1, <1>2, <1>3 DEF Web!NewestIsRecalled, Web!None

-----------------------------------------------------------------------------
(* The plan of a report *)

LEMMA OfOneOrTwo ==
    ASSUME NEW rs, NEW Words,
           \/ rs = <<>> \/ (\E e : rs = <<e>> /\ e.text \in Words)
           \/ \E e, f : rs = <<e, f>> /\ e.text \in Words /\ f.text \in Words
    PROVE  \A i \in DOMAIN rs : rs[i].text \in Words
<1> SUFFICES ASSUME NEW i \in DOMAIN rs PROVE rs[i].text \in Words
  OBVIOUS
<1>1. CASE rs = <<>>
  <2>1. DOMAIN <<>> = {} OBVIOUS
  <2> QED BY <1>1, <2>1
<1>2. ASSUME NEW e, rs = <<e>>, e.text \in Words PROVE rs[i].text \in Words
  <2>1. DOMAIN <<e>> = {1} /\ <<e>>[1] = e OBVIOUS
  <2> QED BY <1>2, <2>1
<1>3. ASSUME NEW e, NEW f, rs = <<e, f>>, e.text \in Words, f.text \in Words PROVE rs[i].text \in Words
  <2>1. DOMAIN <<e, f>> = {1, 2} /\ <<e, f>>[1] = e /\ <<e, f>>[2] = f OBVIOUS
  <2> QED BY <1>3, <2>1
<1> QED BY <1>1, <1>2, <1>3

LEMMA PlanIsMade ==
    ASSUME NEW w \in Report!Writings, Report!MakePlan(w) PROVE Report!PlanIsWhole'
<1> DEFINE made == [i \in DOMAIN Report!Routes |->
                     [id |-> Report!Routes[i], effort |-> Report!Effort[Report!Routes[i]],
                      hardRisk |-> Report!HardRisk(Report!Routes[i]),
                      text |-> Report!RouteText(w, Report!Routes[i])]]
<1>1. /\ plan'.status = Report!DecidedStatus(Report!Overall) /\ plan'.headline = Report!Headline(w)
      /\ plan'.routes = made /\ posting' = posting /\ judged' = judged
  BY DEF Report!MakePlan
<1> DEFINE Written == {"written", "", "firm"}
           Routings == {<<>>, <<[id |-> "as_is", text |-> "written"]>>,
                        <<[id |-> "as_is", text |-> ""], [id |-> "other", text |-> "written"]>>,
                        <<[id |-> "parallel", text |-> "firm"]>>,
                        <<[id |-> "reinforce", text |-> "written"], [id |-> "reinforce", text |-> ""]>>}
<1>2. w.ok => w.headline \in Written /\ \A i \in DOMAIN w.routes : w.routes[i].text \in Written
  <2>1. ASSUME NEW rs \in Routings PROVE \A i \in DOMAIN rs : rs[i].text \in Written
    <3> DEFINE Row(id, text) == [id |-> id, text |-> text]
    <3>1. /\ \A id, text : Row(id, text).text = text
          /\ rs = <<>> \/ (\E a, x : rs = <<Row(a, x)>> /\ x \in Written)
               \/ (\E a, b, x, y : rs = <<Row(a, x), Row(b, y)>> /\ x \in Written /\ y \in Written)
      OBVIOUS
    <3> HIDE DEF Row
    <3> HIDE DEF Written
    <3>2. CASE rs = <<>> BY <3>2, OfOneOrTwo
    <3>3. ASSUME NEW a, NEW x \in Written, rs = <<Row(a, x)>> PROVE \A i \in DOMAIN rs : rs[i].text \in Written
      <4>1. Row(a, x).text \in Written BY <3>1
      <4> QED BY <3>3, <4>1, OfOneOrTwo
    <3>4. ASSUME NEW a, NEW b, NEW x \in Written, NEW y \in Written, rs = <<Row(a, x), Row(b, y)>>
          PROVE  \A i \in DOMAIN rs : rs[i].text \in Written
      <4>1. Row(a, x).text \in Written /\ Row(b, y).text \in Written BY <3>1
      <4> QED BY <3>4, <4>1, OfOneOrTwo
    <3> QED BY <3>1, <3>2, <3>3, <3>4
  <2>2. w = [ok |-> FALSE] \/ w \in [ok : {TRUE}, headline : Written, routes : Routings]
    BY DEF Report!Writings
  <2> HIDE DEF Routings
  <2>3. CASE w = [ok |-> FALSE] BY <2>3
  <2>4. CASE w \in [ok : {TRUE}, headline : Written, routes : Routings]
    <3>1. w.headline \in Written /\ w.routes \in Routings BY <2>4
    <3> QED BY <2>1, <3>1
  <2> QED BY <2>2, <2>3, <2>4
<1>3. Report!Headline(w) \in {"written", "fallback"}
  BY <1>2 DEF Report!Headline, Report!Forbidden
<1>4. ASSUME NEW route PROVE Report!RouteText(w, route) \in {"written", "fallback"}
  <2> SUFFICES ASSUME w.ok, ~Report!Forbidden(w), ~(Report!Given(w, route) \subseteq {""})
               PROVE  (CHOOSE text \in Report!Given(w, route) : text # "") \in {"written", "fallback"}
    BY DEF Report!RouteText
  <2>1. Report!Given(w, route) \subseteq {"written", ""}
    BY <1>2 DEF Report!Given, Report!Forbidden
  <2>2. \E text \in Report!Given(w, route) : text # "" OBVIOUS
  <2> QED BY <2>1, <2>2
<1>5. /\ \A i \in DOMAIN made : made[i].text \in {"written", "fallback"}
      /\ {made[i].id : i \in DOMAIN made} = {Report!Routes[i] : i \in DOMAIN Report!Routes}
  BY <1>4
<1>6. Report!ToSet(Report!Routes) = {Report!Routes[i] : i \in DOMAIN Report!Routes} BY DEF Report!ToSet
<1>7. Report!DecidedStatus(Report!Overall) \in {"APPLY_NOW", "APPLY_WITH_POLISH"} => Report!HardUnmet = {}
  BY DEF Report!DecidedStatus
<1>8. Report!HardUnmet' = Report!HardUnmet
  BY <1>1 DEF Report!HardUnmet, Report!Unmet, Report!Reqs
<1> HIDE DEF made
<1> QED BY <1>1, <1>3, <1>5, <1>6, <1>7, <1>8 DEF Report!PlanIsWhole

LEMMA PlanStays ==
    ASSUME Report!PlanIsWhole, Report!ReportNext \/ UNCHANGED reportVars PROVE Report!PlanIsWhole'
<1>1. ASSUME plan' = plan, posting' = posting, judged' = judged PROVE Report!PlanIsWhole'
  <2>1. Report!HardUnmet' = Report!HardUnmet
    BY <1>1 DEF Report!HardUnmet, Report!Unmet, Report!Reqs
  <2> QED BY <1>1, <2>1 DEF Report!PlanIsWhole
<1>2. ASSUME NEW w \in Report!Writings, Report!MakePlan(w) PROVE Report!PlanIsWhole'
  BY <1>2, PlanIsMade
<1>3. CASE Report!MakeReport \/ Report!OpenPath \/ (\E i \in 1 .. 3, link \in Report!Links : Report!Submit(i, link))
           \/ UNCHANGED reportVars
  <2>1. plan' = plan /\ posting' = posting /\ judged' = judged
    BY <1>3 DEF Report!MakeReport, Report!OpenPath, Report!Submit, reportVars
  <2> QED BY <1>1, <2>1
<1> QED BY <1>2, <1>3 DEF Report!ReportNext

-----------------------------------------------------------------------------
(* What is proved *)

PartsInv ==
    /\ part = "codex" => SessionInv
    /\ part = "letter" => LetterInv
    /\ part = "practice" => PracticeInv /\ GoesOn
    /\ part = "intake" => IntakeInv /\ NothingTakenBack
    /\ part = "report" => Report!PlanIsWhole
    /\ part = "web" => WebInv

LEMMA PartsBegin == AgentsInit => PartsInv
<1>1. Practice!PracticeInit => GoesOn BY DEF Practice!PracticeInit, Practice!Idle, GoesOn
<1>2. Intake!IntakeInit => NothingTakenBack BY DEF Intake!IntakeInit, Intake!Idle, NothingTakenBack
<1>3. Report!ReportInit => Report!PlanIsWhole BY DEF Report!ReportInit, Report!PlanIsWhole, Report!Unmade
<1> QED BY <1>1, <1>2, <1>3, SessionsFit, SessionBegins, LetterBegins, PracticeBegins, IntakeBegins, WebBegins
    DEF AgentsInit, PartsInv

LEMMA PartsGoOn == PartsInv /\ [AgentsNext]_allVars => PartsInv'
<1> SUFFICES ASSUME PartsInv, [AgentsNext]_allVars PROVE PartsInv'
  OBVIOUS
<1>1. /\ part' = part
      /\ part = "codex" => Codex!SessionNext \/ UNCHANGED codexVars
      /\ part = "letter" => Letter!LetterNext \/ UNCHANGED <<loop, letterVars>>
      /\ part = "practice" => Practice!PracticeNext \/ UNCHANGED <<loop, practiceVars>>
      /\ part = "intake" => Intake!IntakeNext \/ UNCHANGED <<loop, intakeVars>>
      /\ part = "report" => Report!ReportNext \/ UNCHANGED reportVars
      /\ part = "web" => Web!BridgeNext \/ UNCHANGED webVars
  BY DEF AgentsNext, allVars
<1>2. ASSUME part' = "codex" PROVE SessionInv'
  <2>1. SessionInv /\ (Codex!SessionNext \/ UNCHANGED Codex!sessionVars)
    BY <1>1, <1>2 DEF PartsInv, codexVars, Codex!sessionVars
  <2> QED BY <2>1, SessionsFit, SessionStep
<1>3. ASSUME part' = "letter" PROVE LetterInv'
  BY <1>1, <1>3, LetterKeeps DEF PartsInv
<1>4. ASSUME part' = "practice" PROVE PracticeInv' /\ GoesOn'
  BY <1>1, <1>4, PracticeStep, PracticeGoesOn DEF PartsInv
<1>5. ASSUME part' = "intake" PROVE IntakeInv' /\ NothingTakenBack'
  BY <1>1, <1>5, IntakeStep, IntakeGoesOn DEF PartsInv
<1>6. ASSUME part' = "report" PROVE Report!PlanIsWhole'
  BY <1>1, <1>6, PlanStays DEF PartsInv
<1>7. ASSUME part' = "web" PROVE WebInv'
  BY <1>1, <1>7, WebStep DEF PartsInv
<1> QED BY <1>2, <1>3, <1>4, <1>5, <1>6, <1>7 DEF PartsInv

\* Whatever fails, and whenever a token is withdrawn, the session survives as long as no
\* two callers save at once and no restart cuts one off; and no request sends a token
\* again that was refused (provider.py, _refresh, _save and stream_events).
THEOREM SessionsSurvive == AgentsSpec => []EachSessionSurvives
<1>1. PartsInv => EachSessionSurvives
  BY SessionsFit, SessionKept DEF PartsInv, EachSessionSurvives
<1> QED BY <1>1, PartsBegin, PartsGoOn, PTL DEF AgentsSpec

\* Whatever a model decides and whatever its tools come to, for every number of steps:
\* the loop of an agent ends within its limit, says nothing firm and says why it has no
\* answer; an interview asks about what a finding gave, and no topic twice in all its
\* turns; a user is probed a bounded number of times by rule, and the agent that previews
\* postings sees what was said so far (agent_loop.py, interview_prep.py,
\* preference_intake.py).
THEOREM AgentsKeepToTheirLoops == AgentsSpec => []EachAgentKeepsToItsLoop
<1>1. PartsInv => EachAgentKeepsToItsLoop
  BY LetterLoopHolds, PracticeLoopHolds, IntakeLoopHolds, PracticeHolds, IntakeHolds
     DEF PartsInv, EachAgentKeepsToItsLoop, LetterInv, PracticeInv, IntakeInv
<1> QED BY <1>1, PartsBegin, PartsGoOn, PTL DEF AgentsSpec

\* Whatever is written, checked, said and failed, over any number of turns: a draft that is
\* shown is the one that is kept and measured, claims no skill the resume of the turn has
\* not, and is not lost with the model; what was practised and what a user named stays
\* (coverletter_draft.py, interview_prep.py, preference_intake.py).
THEOREM TurnsDeliver == AgentsSpec => EachTurnDelivers
<1>1. PartsInv /\ [AgentsNext]_allVars =>
        [/\ part = "letter" => Letter!DeliversWhatIsVerified
         /\ part = "practice" => Practice!ProgressIsKept
         /\ part = "intake" => Intake!PreferencesStay]_allVars
  <2> SUFFICES ASSUME PartsInv, AgentsNext
               PROVE  /\ part = "letter" => Letter!DeliversWhatIsVerified
                      /\ part = "practice" => Practice!ProgressIsKept
                      /\ part = "intake" => Intake!PreferencesStay
    OBVIOUS
  <2>1. /\ part = "letter" => Letter!LetterNext
        /\ part = "practice" => Practice!PracticeNext
        /\ part = "intake" => Intake!IntakeNext
    BY DEF AgentsNext
  <2> QED BY <2>1, LetterKeeps, PracticeGoesOn, IntakeGoesOn DEF PartsInv
<1> QED BY <1>1, PartsBegin, PartsGoOn, PTL DEF AgentsSpec, EachTurnDelivers

\* Whatever a turn comes to, whenever answers come and connections close, for every number
\* of analyses, turns, chats and entries of the store: an analysis ends once, with a report
\* about its own posting if nobody shares its session, and the newest report is the one its
\* follow-up finds; and whatever a model wrote, a plan has its routes, says nothing that is
\* forbidden, and sends nobody to apply against a condition nothing makes up for (runner.py,
\* store.py, application_plan.py).
THEOREM ReportsAreEarned == AgentsSpec => []EachReportIsEarned
<1>1. PartsInv => EachReportIsEarned
  BY WebHolds DEF PartsInv, EachReportIsEarned
<1> QED BY <1>1, PartsBegin, PartsGoOn, PTL DEF AgentsSpec
=============================================================================
