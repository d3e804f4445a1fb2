---------------------------- MODULE ImagesProofs ----------------------------
(***************************************************************************)
(* What holds of the files of pictures for any wishes, users and requests,  *)
(* any number of them in flight.                                            *)
(*                                                                          *)
(* The two files of a picture agree except while a request is between them. *)
(* That request is the only one that touches the picture, or has met        *)
(* another there: then the picture counts as torn, until a request that     *)
(* meets no other has written both files again.                             *)
(***************************************************************************)
EXTENDS Images, HandlingProofs, FiniteSetTheorems

\* The files of a picture are changed in two calls, and written back by who read it.
Firsts == {"WriteFull", "RemoveFull"}
Seconds == {"WriteThumbnail", "RemoveThumbnail"}
WriteBacks == {"WriteBackFull", "WriteBackThumbnail"}

-----------------------------------------------------------------------------
(* The requests.                                                            *)

\* The call c changes a picture that q touches, and rows as they can be.
FileCallFits(q, c) ==
    /\ c.do \in Firsts \cup Seconds => c.arg \in Pictures /\ Touches(q, c.arg)
    /\ c.do \in {"SaveRow", "ReadThumbnail", "ReadFull"} \cup WriteBacks => q.scope \in Pictures
    /\ c.do = "SaveRow" => c.arg \in {"enabled", "deleted"}
    /\ c.do = "CreateWish" => c.arg \in Wishes
    /\ c.do = "ReadFull" => c.arg \in BOOLEAN
    /\ c.do = "GetWishIDsFromWishlist" => q.op = "DeleteWishlist" /\ q.scope = None

\* The second file is changed right after the first one of the same picture.
FileCallFollows(c, d) ==
    /\ c.do = "WriteFull" <=> d.do = "WriteThumbnail"
    /\ c.do = "RemoveFull" <=> d.do = "RemoveThumbnail"
    /\ c.do \in Firsts => d.arg = c.arg
    /\ d.do # "WriteBackFull"
    /\ d.do = "WriteBackThumbnail" => c.do = "WriteBackFull"

FileProgramFits(q, s) ==
    /\ IsProgram(s)
    /\ \A i \in DOMAIN s : FileCallFits(q, s[i])
    /\ \A i \in DOMAIN s \ {1} : FileCallFollows(s[i - 1], s[i])
    /\ s # <<>> => s[Len(s)].do \notin Firsts

\* A program that begins with no second half.
FreshProgram(q, s) ==
    /\ FileProgramFits(q, s)
    /\ s # <<>> => s[1].do \notin Seconds \cup WriteBacks

\* q is between the two files of p; q is about to write back what it read of p.
Halfway(q, p) ==
    q.todo # <<>> /\ Head(q.todo).do \in Seconds /\ Head(q.todo).arg = p
WritesBack(q, p) ==
    q.todo # <<>> /\ Head(q.todo).do \in WriteBacks /\ q.scope = p

FileReady(q) ==
    /\ FileProgramFits(q, q.todo)
    /\ \A p : WritesBack(q, p) => q.found \in Uploads

-----------------------------------------------------------------------------
(* The pictures.                                                            *)

\* Both files hold what was left.
Agree(p) ==
    /\ full[p].of = left[p]
    /\ thumb[p] = left[p] \/ (left[p] = Legacy /\ thumb[p] = None)

\* What r, between the two files of a picture, has made of the first.
FirstOf(r) == IF Head(req[r].todo).do = "WriteThumbnail" THEN r ELSE None

HalfFits(p) ==
    \A r \in Requests : Halfway(req[r], p) /\ <<r, p>> \notin met => full[p].of = FirstOf(r)
ReadersFit(p) ==
    left[p] # "torn" => \A r \in Requests : WritesBack(req[r], p) => req[r].found = left[p]
FilesAgree(p) ==
    left[p] # "torn" /\ (\A r \in Requests : ~Halfway(req[r], p)) => Agree(p)

\* Requests that are busy with one picture have met there, and a picture that is not
\* torn has at most one, which has met nobody.
Meets(p) ==
    \A r \in Touching(p) :
        /\ left[p] = "torn" \/ (<<r, p>> \notin met /\ Touching(p) = {r})
        /\ \A s \in Touching(p) : r # s => <<r, p>> \in met

PictureFits(p) == HalfFits(p) /\ ReadersFit(p) /\ FilesAgree(p) /\ Meets(p)

ImagesInv ==
    /\ RequestsFit
    /\ ImagesTypeOK
    /\ \A r \in Requests : FileReady(req[r])
    /\ \A m \in met : req[m[1]] # NoRequest
    /\ \A p \in Pictures : PictureFits(p)

-----------------------------------------------------------------------------
(* Requests and the pictures they touch.                                    *)

\* A request that has been answered is busy with nothing.
LEMMA OverTouchesNothing ==
    ASSUME NEW q, Over(q)
    PROVE  /\ FileReady(q)
           /\ \A p : ~Halfway(q, p) /\ ~WritesBack(q, p)
           /\ q # NoRequest
           /\ q.reply # "pending"
<1>1. PICK reply \in Replies : q = Finished(reply)
  BY DEF Over
<1>2. q.todo = <<>> /\ q.reply = reply
  BY <1>1, FinishedFields
<1>3. IsProgram(<<>>) /\ DOMAIN <<>> = {}
  BY TuplesArePrograms
<1>4. q # NoRequest
  BY <1>2 DEF NoRequest, Replies
<1>5. QED
  BY <1>2, <1>3, <1>4 DEF FileReady, FileProgramFits, Halfway, WritesBack, Replies

\* Who is between the files of a picture, or writes it back, is busy with it.
LEMMA BusyTouches ==
    ASSUME NEW q, FileReady(q), NEW p \in Pictures, Halfway(q, p) \/ WritesBack(q, p)
    PROVE  Touches(q, p)
<1>1. q.todo # <<>> /\ IsProgram(q.todo)
  BY DEF Halfway, WritesBack, FileReady, FileProgramFits
<1>2. 1 \in DOMAIN q.todo /\ Head(q.todo) = q.todo[1]
  BY <1>1, ProgramTail
<1>3. FileCallFits(q, Head(q.todo))
  BY <1>2 DEF FileReady, FileProgramFits
<1>4. QED
  BY <1>3 DEF FileCallFits, Halfway, WritesBack, Touches

\* The request at a picture that is not torn, or that it met nobody at, is alone there.
LEMMA AloneThere ==
    ASSUME ImagesInv, NEW p \in Pictures, NEW r \in Touching(p),
           left[p] # "torn" \/ <<r, p>> \notin met
    PROVE  \A s \in Requests \ {r} :
              s \notin Touching(p) /\ ~Halfway(req[s], p) /\ ~WritesBack(req[s], p)
<1>1. \A s \in Touching(p) : s = r
  BY DEF ImagesInv, PictureFits, Meets
<1>2. ASSUME NEW s \in Requests \ {r}, Halfway(req[s], p) \/ WritesBack(req[s], p)
      PROVE  s \in Touching(p)
  <2>1. Touches(req[s], p)
    BY <1>2, BusyTouches DEF ImagesInv
  <2>2. Pending(s)
    BY <1>2 DEF ImagesInv, RequestsFit, RequestsOK, Halfway, WritesBack
  <2>3. QED
    BY <2>1, <2>2 DEF Touching, InFlight
<1>3. QED
  BY <1>1, <1>2

\* The next call of a request that is being handled.
LEMMA NextFileCall ==
    ASSUME ImagesInv, NEW r \in Requests, Pending(r), NEW q, q = req[r], NEW h, h = Head(q.todo)
    PROVE  /\ q.todo # <<>> /\ IsProgram(q.todo) /\ q.reply = "pending"
           /\ Len(q.todo) \in Nat \ {0} /\ DOMAIN q.todo = 1..Len(q.todo) /\ h = q.todo[1]
           /\ FileCallFits(q, h)
<1>1. q.todo # <<>> /\ IsProgram(q.todo) /\ q.reply = "pending" /\ FileReady(q)
  BY DEF ImagesInv, RequestsFit, RequestsOK, Pending
<1>2. Len(q.todo) \in Nat \ {0} /\ DOMAIN q.todo = 1..Len(q.todo) /\ h = q.todo[1]
  BY <1>1, ProgramTail
<1>3. 1 \in DOMAIN q.todo
  BY <1>2
<1>4. QED
  BY <1>1, <1>2, <1>3 DEF FileReady, FileProgramFits

\* The rest of a program is one, and follows its first call.
LEMMA RestFits ==
    ASSUME NEW q, NEW s, FileProgramFits(q, s), s # <<>>
    PROVE  /\ FileProgramFits(q, Tail(s))
           /\ Tail(s) # <<>> => FileCallFollows(Head(s), Head(Tail(s)))
           /\ Head(s).do \in Firsts => Tail(s) # <<>>
<1>1. PICK t : t = Tail(s)
  OBVIOUS
<1>2. PICK n : n = Len(s)
  OBVIOUS
<1>3. /\ n \in Nat \ {0} /\ DOMAIN s = 1..n /\ Head(s) = s[1]
      /\ IsProgram(t) /\ Len(t) = n - 1 /\ \A i \in 1..n - 1 : t[i] = s[i + 1]
      /\ n = 1 <=> t = <<>>
  BY <1>1, <1>2, ProgramTail DEF FileProgramFits
<1>4. DOMAIN t = 1..n - 1
  BY <1>3, ProgramLength
<1>5. \A i \in DOMAIN t : FileCallFits(q, t[i])
  <2>1. \A i \in 1..n - 1 : i + 1 \in 1..n
    BY <1>3
  <2>2. QED
    BY <1>3, <1>4, <2>1 DEF FileProgramFits
<1>6. \A i \in 1..n - 1 : FileCallFollows(s[i], t[i])
  <2>1. \A i \in 1..n - 1 : i + 1 \in (1..n) \ {1} /\ (i + 1) - 1 = i
    BY <1>3
  <2>2. QED
    BY <1>3, <2>1 DEF FileProgramFits
<1>7. \A i \in DOMAIN t \ {1} : FileCallFollows(t[i - 1], t[i])
  <2>1. \A i \in (1..n - 1) \ {1} : i - 1 \in 1..n - 1 /\ (i - 1) + 1 = i
    BY <1>3
  <2>2. QED
    BY <1>3, <1>4, <1>6, <2>1
<1>8. t # <<>> => t[Len(t)].do \notin Firsts
  <2>1. t # <<>> => n - 1 \in 1..n - 1 /\ (n - 1) + 1 = n
    BY <1>3
  <2>2. QED
    BY <1>2, <1>3, <2>1 DEF FileProgramFits
<1>9. t # <<>> => Head(t) = t[1] /\ 1 \in 1..n - 1
  BY <1>3, ProgramTail
<1>10. t # <<>> => FileCallFollows(Head(s), Head(t))
  BY <1>3, <1>6, <1>9
<1>11. Head(s).do \in Firsts => t # <<>>
  BY <1>2, <1>3 DEF FileProgramFits
<1>12. FileProgramFits(q, t)
  BY <1>3, <1>5, <1>7, <1>8 DEF FileProgramFits
<1>13. QED
  BY <1>1, <1>10, <1>11, <1>12

-----------------------------------------------------------------------------
(* A request that moves.                                                    *)

\* r goes on about what it was about, with a program that fits, or is over.
FileMoves(r) ==
    /\ OnlyMoves(r)
    /\ \/ Over(req'[r])
       \/ /\ req'[r].op = req[r].op /\ req'[r].scope = req[r].scope
          /\ req'[r].reply = "pending"
          /\ FileReady(req'[r])

\* It touches no picture it did not touch, and neither do the others.
LEMMA MovesTouchNoMore ==
    ASSUME ImagesInv, NEW r \in Requests, Pending(r), FileMoves(r), met' = met,
           NEW p \in Pictures
    PROVE  /\ FileReady(req'[r]) /\ req'[r] # NoRequest
           /\ \A s \in Requests \ {r} : req'[s] = req[s]
           /\ Touching(p)' \subseteq Touching(p)
<1>1. FileReady(req'[r]) /\ req'[r] # NoRequest
  <2>1. CASE Over(req'[r])
    BY <2>1, OverTouchesNothing
  <2>2. CASE req'[r].reply = "pending" /\ FileReady(req'[r])
    BY <2>2 DEF NoRequest
  <2>3. QED
    BY <2>1, <2>2 DEF FileMoves
<1>2. \A s \in Requests \ {r} : req'[s] = req[s]
  BY DEF FileMoves, OnlyMoves
<1>3. ASSUME NEW s \in Touching(p)' PROVE s \in Touching(p)
  <2>1. s \in Requests /\ req'[s].reply = "pending" /\ Touches(req'[s], p)
    BY <1>3 DEF Touching, InFlight, Pending
  <2>2. CASE s = r
    <3>1. ~Over(req'[r])
      BY <2>1, <2>2, OverTouchesNothing
    <3>2. Touches(req[r], p)
      BY <2>1, <2>2, <3>1 DEF FileMoves, Touches
    <3>3. QED
      BY <2>2, <3>2 DEF Touching, InFlight
  <2>3. CASE s # r
    BY <1>2, <2>1, <2>3 DEF Touching, InFlight, Pending
  <2>4. QED
    BY <2>2, <2>3
<1>4. QED
  BY <1>1, <1>2, <1>3

\* So nobody comes to a picture, and one that stops being torn has met nobody.
LEMMA MovesMeetNobody ==
    ASSUME ImagesInv, NEW r \in Requests, Pending(r), FileMoves(r), met' = met,
           NEW p \in Pictures,
           left'[p] \in {left[p], "torn"} \/ (r \in Touching(p) /\ <<r, p>> \notin met)
    PROVE  Meets(p)'
<1>1. Touching(p)' \subseteq Touching(p) /\ Meets(p)
  BY MovesTouchNoMore DEF ImagesInv, PictureFits
<1>2. ASSUME NEW s \in Touching(p)'
      PROVE  left'[p] = "torn" \/ (<<s, p>> \notin met' /\ Touching(p)' = {s})
  <2>1. CASE left'[p] \in {left[p], "torn"}
    BY <1>1, <1>2, <2>1 DEF Meets
  <2>2. CASE r \in Touching(p) /\ <<r, p>> \notin met
    <3>1. Touching(p) = {r}
      BY <1>1, <2>2 DEF Meets
    <3>2. QED
      BY <1>1, <1>2, <2>2, <3>1
  <2>3. QED
    BY <2>1, <2>2
<1>3. ASSUME NEW s \in Touching(p)', NEW t \in Touching(p)', s # t
      PROVE  <<s, p>> \in met'
  BY <1>1, <1>3 DEF Meets
<1>4. QED
  BY <1>2, <1>3 DEF Meets

\* A step of r away from the picture p: nothing of p changes, and r was and is not
\* between its files, or has just read them.
LEMMA StepElsewhere ==
    ASSUME ImagesInv, NEW r \in Requests, Pending(r), FileMoves(r), met' = met,
           NEW p \in Pictures,
           full'[p] = full[p], thumb'[p] = thumb[p], left'[p] = left[p],
           ~Halfway(req[r], p), ~Halfway(req'[r], p),
           WritesBack(req'[r], p) => req'[r].found = full[p].of
    PROVE  PictureFits(p)'
<1>1. PictureFits(p) /\ \A s \in Requests \ {r} : req'[s] = req[s]
  BY MovesTouchNoMore DEF ImagesInv
<1>2. Meets(p)'
  BY MovesMeetNobody
<1>3. HalfFits(p)'
  BY <1>1 DEF PictureFits, HalfFits, FirstOf
<1>4. (\A s \in Requests : ~Halfway(req'[s], p)) => \A s \in Requests : ~Halfway(req[s], p)
  BY <1>1
<1>5. FilesAgree(p)'
  BY <1>1, <1>4 DEF PictureFits, FilesAgree, Agree
<1>6. ASSUME left'[p] # "torn", NEW s \in Requests, WritesBack(req'[s], p)
      PROVE  req'[s].found = left'[p]
  <2>1. CASE s # r
    BY <1>1, <1>6, <2>1 DEF PictureFits, ReadersFit
  <2>2. CASE s = r
    <3>1. FileReady(req'[r]) /\ Touching(p)' \subseteq Touching(p)
      BY MovesTouchNoMore
    <3>2. Touches(req'[r], p)
      BY <1>6, <2>2, <3>1, BusyTouches
    <3>3. req'[r].reply = "pending"
      BY <1>6, <2>2, OverTouchesNothing DEF FileMoves
    <3>4. r \in Touching(p)
      BY <3>1, <3>2, <3>3 DEF Touching, InFlight, Pending
    <3>5. \A t \in Requests : ~Halfway(req[t], p)
      BY <1>6, <3>4, AloneThere
    <3>6. Agree(p)
      BY <1>1, <1>6, <3>5 DEF PictureFits, FilesAgree
    <3>7. QED
      BY <1>6, <2>2, <3>6 DEF Agree
  <2>3. QED
    BY <2>1, <2>2
<1>7. QED
  BY <1>2, <1>3, <1>5, <1>6 DEF PictureFits, ReadersFit

\* A step of r at the picture p: what the files are like is for r to show, who is alone
\* there unless the picture is torn.
LEMMA StepThere ==
    ASSUME ImagesInv, NEW r \in Requests, Pending(r), FileMoves(r), met' = met,
           NEW p \in Pictures, Touches(req[r], p),
           left'[p] \in {left[p], "torn"} \/ <<r, p>> \notin met,
           Halfway(req'[r], p) /\ <<r, p>> \notin met => full'[p].of = FirstOf(r)',
           left'[p] # "torn" /\ WritesBack(req'[r], p) => req'[r].found = left'[p],
           left'[p] # "torn" /\ ~Halfway(req'[r], p) => Agree(p)'
    PROVE  PictureFits(p)'
<1>1. r \in Touching(p)
  BY DEF Touching, InFlight
<1>2. PictureFits(p) /\ \A s \in Requests \ {r} : req'[s] = req[s]
  BY MovesTouchNoMore DEF ImagesInv
<1>3. Meets(p)'
  BY <1>1, MovesMeetNobody
<1>4. ASSUME NEW s \in Requests, Halfway(req'[s], p), <<s, p>> \notin met
      PROVE  s = r
  <2>1. SUFFICES ASSUME s # r PROVE FALSE
    OBVIOUS
  <2>2. Halfway(req[s], p)
    BY <1>2, <1>4, <2>1
  <2>3. Touches(req[s], p)
    BY <2>2, BusyTouches DEF ImagesInv
  <2>4. s \in Touching(p)
    BY <2>2, <2>3 DEF Touching, InFlight, Pending, ImagesInv, RequestsFit, RequestsOK, Halfway
  <2>5. QED
    BY <1>1, <1>2, <1>4, <2>1, <2>4 DEF PictureFits, Meets
<1>5. HalfFits(p)'
  BY <1>4 DEF HalfFits
<1>6. ASSUME left'[p] # "torn"
      PROVE  \A s \in Requests \ {r} : ~WritesBack(req'[s], p)
  <2>1. left[p] # "torn" \/ <<r, p>> \notin met
    BY <1>6
  <2>2. QED
    BY <1>1, <1>2, <2>1, AloneThere
<1>7. ReadersFit(p)'
  BY <1>6 DEF ReadersFit
<1>8. FilesAgree(p)'
  BY DEF FilesAgree
<1>9. QED
  BY <1>3, <1>5, <1>7, <1>8 DEF PictureFits

\* The invariant holds after a step that keeps the files of every picture fit.
LEMMA PicturesKeepInv ==
    ASSUME ImagesInv, NEW r \in Requests, Pending(r), FileMoves(r), met' = met,
           row' \in [Pictures -> {"absent", "enabled", "deleted"}], listed' \in BOOLEAN,
           full' \in [Pictures -> [of: Uploads, oversized: BOOLEAN] \cup {NoFile}],
           \A p \in Pictures : full'[p].oversized => full'[p].of = Legacy,
           thumb' \in [Pictures -> Uploads \cup {None}],
           left' \in [Pictures -> Uploads \cup {None, "torn"}],
           \A p \in Pictures : PictureFits(p)'
    PROVE  ImagesInv'
<1>1. RequestsFit'
  BY DEF FileMoves, OnlyMoves
<1>2. ImagesTypeOK'
  BY <1>1 DEF ImagesTypeOK, RequestsFit, ImagesInv
<1>3. FileReady(req'[r]) /\ req'[r] # NoRequest /\ \A s \in Requests \ {r} : req'[s] = req[s]
  <2>1. CASE Over(req'[r])
    BY <2>1, OverTouchesNothing DEF FileMoves, OnlyMoves
  <2>2. CASE FileReady(req'[r]) /\ req'[r].reply = "pending"
    BY <2>2 DEF NoRequest, FileMoves, OnlyMoves
  <2>3. QED
    BY <2>1, <2>2 DEF FileMoves
<1>4. \A s \in Requests : FileReady(req'[s])
  BY <1>3 DEF ImagesInv
<1>5. \A m \in met' : req'[m[1]] # NoRequest
  <2>1. \A m \in met : m[1] \in Requests /\ req[m[1]] # NoRequest
    BY DEF ImagesInv, ImagesTypeOK
  <2>2. QED
    BY <1>3, <2>1
<1>6. QED
  BY <1>1, <1>2, <1>4, <1>5 DEF ImagesInv

\* A call that leaves the files alone.
LEMMA QuietStep ==
    ASSUME ImagesInv, NEW r \in Requests, Pending(r), FileMoves(r),
           UNCHANGED <<files, met, left>>,
           row' \in [Pictures -> {"absent", "enabled", "deleted"}], listed' \in BOOLEAN,
           Head(req[r].todo).do \notin Seconds,
           \A p \in Pictures :
              ~Halfway(req'[r], p) /\ (WritesBack(req'[r], p) => req'[r].found = full[p].of)
    PROVE  ImagesInv'
<1>1. full' = full /\ thumb' = thumb /\ left' = left /\ met' = met
  BY DEF files
<1>2. \A p \in Pictures : ~Halfway(req[r], p)
  BY DEF Halfway
<1>3. \A p \in Pictures : PictureFits(p)'
  BY <1>1, <1>2, StepElsewhere
<1>4. QED
  BY <1>1, <1>3, PicturesKeepInv DEF ImagesInv, ImagesTypeOK

\* A call about the files of the picture a.
LEMMA FileStep ==
    ASSUME ImagesInv, NEW r \in Requests, Pending(r), FileMoves(r),
           UNCHANGED <<row, listed, met>>,
           NEW a \in Pictures, Touches(req[r], a),
           NEW f \in [of: Uploads, oversized: BOOLEAN] \cup {NoFile},
           f.oversized => f.of = Legacy,
           NEW t \in Uploads \cup {None}, NEW l \in Uploads \cup {None, "torn"},
           full' = [full EXCEPT ![a] = f],
           thumb' = [thumb EXCEPT ![a] = t],
           left' = [left EXCEPT ![a] = l],
           l \in {left[a], "torn"} \/ <<r, a>> \notin met,
           \A p \in Pictures \ {a} :
              ~Halfway(req[r], p) /\ ~Halfway(req'[r], p) /\ ~WritesBack(req'[r], p),
           Halfway(req'[r], a) /\ <<r, a>> \notin met => f.of = FirstOf(r)',
           l # "torn" /\ WritesBack(req'[r], a) => req'[r].found = l,
           l # "torn" /\ ~Halfway(req'[r], a) => f.of = l /\ (t = l \/ (l = Legacy /\ t = None))
    PROVE  ImagesInv'
<1>1. /\ full'[a] = f /\ thumb'[a] = t /\ left'[a] = l /\ met' = met
      /\ \A p \in Pictures \ {a} :
            full'[p] = full[p] /\ thumb'[p] = thumb[p] /\ left'[p] = left[p]
  BY DEF ImagesInv, ImagesTypeOK
<1>2. /\ row' \in [Pictures -> {"absent", "enabled", "deleted"}] /\ listed' \in BOOLEAN
      /\ full' \in [Pictures -> [of: Uploads, oversized: BOOLEAN] \cup {NoFile}]
      /\ thumb' \in [Pictures -> Uploads \cup {None}]
      /\ left' \in [Pictures -> Uploads \cup {None, "torn"}]
  BY DEF ImagesInv, ImagesTypeOK
<1>3. \A p \in Pictures : full'[p].oversized => full'[p].of = Legacy
  BY <1>1 DEF ImagesInv, ImagesTypeOK
<1>4. \A p \in Pictures \ {a} : PictureFits(p)'
  BY <1>1, StepElsewhere
<1>5. PictureFits(a)'
  <2>1. l # "torn" /\ ~Halfway(req'[r], a) => Agree(a)'
    BY <1>1 DEF Agree
  <2>2. QED
    BY <1>1, <2>1, StepThere
<1>6. QED
  BY <1>1, <1>2, <1>3, <1>4, <1>5, PicturesKeepInv

-----------------------------------------------------------------------------
(* The ways a request moves.                                                *)

\* y is q after its call h: at the second half of what that began, or at anything that
\* is none.
LeftBy(q, h, y) ==
    /\ \A p : Halfway(y, p) <=> h.do \in Firsts /\ h.arg = p
    /\ h.do = "WriteFull" => Head(y.todo).do = "WriteThumbnail"
    /\ h.do = "RemoveFull" => Head(y.todo).do = "RemoveThumbnail"
    /\ \A p : WritesBack(y, p) => h.do = "WriteBackFull" /\ q.scope = p /\ y.found = q.found

\* A call that is done leaves the rest.
LEMMA DoneMoves ==
    ASSUME ImagesInv, NEW r \in Requests, Pending(r), Done(r),
           NEW q, q = req[r], NEW h, h = Head(q.todo), NEW x, x = req'[r]
    PROVE  FileMoves(r) /\ LeftBy(q, h, x)
<1>1. RequestsFit /\ FileReady(q) /\ q.todo # <<>>
  BY NextFileCall DEF ImagesInv
<1>2. OnlyMoves(r) /\ (Over(req'[r]) \/ GoesOn(r, q.scope, q.found))
  BY <1>1, DoneStep
<1>3. x = req'[r]
  OBVIOUS
<1>4. PICK t : t = Tail(q.todo)
  OBVIOUS
<1>5. /\ FileProgramFits(q, t)
      /\ t # <<>> => FileCallFollows(h, Head(t))
      /\ h.do \in Firsts => t # <<>>
  BY <1>1, <1>4, RestFits DEF FileReady
<1>6. CASE Over(x)
  <2>1. x.reply # "pending" /\ \A p : ~Halfway(x, p) /\ ~WritesBack(x, p)
    BY <1>6, OverTouchesNothing
  <2>2. t = <<>>
    <3>1. SUFFICES ASSUME t # <<>> PROVE x.reply = "pending"
      BY <2>1
    <3>2. Len(q.todo) # 1
      BY <1>1, <1>4, <3>1, ProgramTail DEF FileReady, FileProgramFits
    <3>3. x = [q EXCEPT !.todo = Tail(@)]
      BY <1>3, <3>2 DEF Done, Advance, RequestsFit, ImagesInv
    <3>4. q.reply = "pending" /\ IsRequest(q)
      BY DEF Pending, ImagesInv, RequestsFit
    <3>5. QED
      BY <3>3, <3>4 DEF IsRequest, RequestFields
  <2>3. QED
    BY <1>2, <1>3, <1>5, <1>6, <2>1, <2>2 DEF FileMoves, LeftBy, Firsts
<1>7. CASE GoesOn(r, q.scope, q.found)
  <2>1. /\ x.op = q.op /\ x.scope = q.scope /\ x.found = q.found /\ x.todo = t
        /\ x.reply = "pending" /\ t # <<>>
    BY <1>3, <1>4, <1>7 DEF GoesOn, Holds
  <2>2. FileProgramFits(x, t)
    BY <1>5, <2>1 DEF FileProgramFits, FileCallFits, Touches
  <2>3. \A p : WritesBack(x, p) =>
                  h.do = "WriteBackFull" /\ q.scope = p /\ x.found = q.found
    BY <1>5, <2>1 DEF WritesBack, WriteBacks, FileCallFollows
  <2>4. \A p : WritesBack(x, p) => x.found \in Uploads
    <3>1. \A p : WritesBack(x, p) => WritesBack(q, p)
      BY <1>1, <2>3 DEF WritesBack, WriteBacks
    <3>2. QED
      BY <1>1, <2>1, <3>1 DEF FileReady
  <2>5. FileMoves(r)
    BY <1>2, <1>3, <2>1, <2>2, <2>4 DEF FileMoves, FileReady
  <2>6. \A p : Halfway(x, p) <=> h.do \in Firsts /\ h.arg = p
    BY <1>5, <2>1 DEF Halfway, FileCallFollows, Firsts, Seconds
  <2>7. QED
    BY <1>3, <1>5, <2>1, <2>3, <2>5, <2>6 DEF FileCallFollows, LeftBy, Firsts
<1>8. QED
  BY <1>2, <1>3, <1>6, <1>7

\* An answer leaves nothing to do.
LEMMA AnswerMoves ==
    ASSUME ImagesInv, NEW r \in Requests, Pending(r), NEW reply \in Replies, Answer(r, reply)
    PROVE  FileMoves(r) /\ \A p : ~Halfway(req'[r], p) /\ ~WritesBack(req'[r], p)
<1>1. OnlyMoves(r) /\ Over(req'[r])
  BY AnswerStep DEF ImagesInv
<1>2. QED
  BY <1>1, OverTouchesNothing DEF FileMoves

\* y is q, with what it has found, at the beginning of the program s.
AtStartOf(s, q, found, y) ==
    \A p : /\ Halfway(y, p) => s # <<>> /\ s[1].do \in Seconds
           /\ WritesBack(y, p) =>
                s # <<>> /\ s[1].do \in WriteBacks /\ q.scope = p /\ y.found = found

\* A branch leaves the program of the branch.
LEMMA ContinueMoves ==
    ASSUME ImagesInv, NEW r \in Requests, Pending(r), NEW q, q = req[r], NEW x, NEW program,
           NEW y, y = req'[r],
           FileProgramFits(q, program), Continue(r, q.scope, x, program),
           program # <<>> /\ program[1].do \in WriteBacks => x \in Uploads
    PROVE  FileMoves(r) /\ AtStartOf(program, q, x, y)
<1>1. /\ OnlyMoves(r)
      /\ \/ Over(req'[r])
         \/ program # <<>> /\ Holds(req'[r], q.op, q.caller, q.scope, x, program)
  BY ContinueStep DEF ImagesInv, FileProgramFits
<1>2. CASE Over(req'[r])
  BY <1>1, <1>2, OverTouchesNothing DEF FileMoves, AtStartOf
<1>3. CASE program # <<>> /\ Holds(req'[r], q.op, q.caller, q.scope, x, program)
  <2>1. y = req'[r]
    OBVIOUS
  <2>2. /\ y.op = q.op /\ y.scope = q.scope /\ y.found = x /\ y.todo = program
        /\ y.reply = "pending"
    BY <1>3, <2>1 DEF Holds
  <2>3. Head(program) = program[1]
    BY <1>3, ProgramTail DEF FileProgramFits
  <2>4. FileProgramFits(y, program)
    BY <2>2 DEF FileProgramFits, FileCallFits, Touches
  <2>5. FileReady(y)
    BY <1>3, <2>2, <2>3, <2>4 DEF FileReady, WritesBack
  <2>6. \A p : /\ Halfway(y, p) => program[1].do \in Seconds
               /\ WritesBack(y, p) =>
                     program[1].do \in WriteBacks /\ q.scope = p /\ y.found = x
    BY <2>2, <2>3 DEF Halfway, WritesBack
  <2>7. QED
    BY <1>1, <1>3, <2>1, <2>2, <2>5, <2>6 DEF FileMoves, AtStartOf
<1>4. QED
  BY <1>1, <1>2, <1>3

-----------------------------------------------------------------------------
(* The programs.                                                            *)

\* Programs made of one call, or of both for the files of a picture.
LEMMA SmallPrograms ==
    ASSUME NEW q
    PROVE  /\ FreshProgram(q, <<>>)
           /\ \A c : FileCallFits(q, c) /\ c.do \notin Firsts \cup Seconds \cup WriteBacks =>
                        FreshProgram(q, <<c>>)
           /\ \A p \in Pictures : Touches(q, p) =>
                  /\ FreshProgram(q, storeUploadedImage(p))
                  /\ FreshProgram(q, deleteImageFiles(p))
<1>1. FreshProgram(q, <<>>)
  BY TuplesArePrograms DEF FreshProgram, FileProgramFits
<1>2. ASSUME NEW c, FileCallFits(q, c), c.do \notin Firsts \cup Seconds \cup WriteBacks
      PROVE  FreshProgram(q, <<c>>)
  <2>1. PICK s : s = <<c>>
    OBVIOUS
  <2>2. IsProgram(s) /\ Len(s) = 1 /\ s[1] = c /\ DOMAIN s = {1}
    BY <2>1, TuplesArePrograms
  <2>3. QED
    BY <1>2, <2>1, <2>2 DEF FreshProgram, FileProgramFits
<1>3. ASSUME NEW a, NEW b, FileCallFits(q, a), FileCallFits(q, b), FileCallFollows(a, b),
             b.do \notin Firsts, a.do \notin Seconds \cup WriteBacks
      PROVE  FreshProgram(q, <<a, b>>)
  <2>1. PICK s : s = <<a, b>>
    OBVIOUS
  <2>2. IsProgram(s) /\ Len(s) = 2 /\ s[1] = a /\ s[2] = b /\ DOMAIN s = {1, 2}
    BY <2>1, TuplesArePrograms
  <2>3. FileProgramFits(q, s)
    BY <1>3, <2>2 DEF FileProgramFits
  <2>4. QED
    BY <1>3, <2>1, <2>2, <2>3 DEF FreshProgram
<1>4. ASSUME NEW p \in Pictures, Touches(q, p)
      PROVE  FreshProgram(q, storeUploadedImage(p)) /\ FreshProgram(q, deleteImageFiles(p))
  <2>1. ASSUME NEW d \in Firsts \cup Seconds
        PROVE  FileCallFits(q, Call(d, p)) /\ Call(d, p).do = d /\ Call(d, p).arg = p
    BY <1>4, <2>1 DEF FileCallFits, Call, Firsts, Seconds, WriteBacks
  <2>2. /\ FileCallFollows(Call("WriteFull", p), Call("WriteThumbnail", p))
        /\ FileCallFollows(Call("RemoveFull", p), Call("RemoveThumbnail", p))
    BY <2>1 DEF FileCallFollows, Firsts, Seconds
  <2>3. FreshProgram(q, <<Call("WriteFull", p), Call("WriteThumbnail", p)>>)
    BY <1>3, <2>1, <2>2 DEF Firsts, Seconds, WriteBacks
  <2>4. FreshProgram(q, <<Call("RemoveFull", p), Call("RemoveThumbnail", p)>>)
    BY <1>3, <2>1, <2>2 DEF Firsts, Seconds, WriteBacks
  <2>5. QED
    BY <2>3, <2>4 DEF storeUploadedImage, deleteImageFiles
<1>5. QED
  BY <1>1, <1>2, <1>4

\* One such program after another.
LEMMA ConcatFresh ==
    ASSUME NEW q, NEW s, FreshProgram(q, s), NEW t, FreshProgram(q, t)
    PROVE  FreshProgram(q, s \o t) /\ (s # <<>> \/ t # <<>> => s \o t # <<>>)
<1>1. PICK u : u = s \o t
  OBVIOUS
<1>2. PICK m : m = Len(s)
  OBVIOUS
<1>3. PICK n : n = Len(t)
  OBVIOUS
<1>4. /\ m \in Nat /\ n \in Nat /\ DOMAIN s = 1..m /\ DOMAIN t = 1..n
      /\ IsProgram(s) /\ IsProgram(t)
      /\ s # <<>> <=> m # 0
      /\ t # <<>> <=> n # 0
  BY <1>2, <1>3, ProgramLength DEF FreshProgram, FileProgramFits, IsProgram
<1>5. /\ IsProgram(u) /\ Len(u) = m + n
      /\ \A i \in 1..m + n : u[i] = IF i <= m THEN s[i] ELSE t[i - m]
  BY <1>1, <1>2, <1>3, <1>4, ProgramConcat
<1>6. DOMAIN u = 1..m + n /\ (u # <<>> <=> m + n # 0)
  BY <1>5, ProgramLength DEF IsProgram
<1>7. \A i \in 1..m + n : FileCallFits(q, u[i])
  <2>1. \A i \in 1..m + n : IF i <= m THEN i \in 1..m ELSE i - m \in 1..n
    BY <1>4
  <2>2. QED
    BY <1>4, <1>5, <2>1 DEF FreshProgram, FileProgramFits
<1>8. ASSUME NEW i \in (1..m + n) \ {1} PROVE FileCallFollows(u[i - 1], u[i])
  <2>1. i - 1 \in 1..m + n
    BY <1>4
  <2>2. CASE i <= m
    <3>1. i \in (1..m) \ {1} /\ i - 1 <= m
      BY <1>4, <2>2
    <3>2. QED
      BY <1>4, <1>5, <2>1, <2>2, <3>1 DEF FreshProgram, FileProgramFits
  <2>3. CASE i = m + 1
    <3>1. /\ m # 0 /\ n # 0 /\ i - m = 1 /\ i - 1 = m /\ ~(i <= m)
      BY <1>4, <2>3
    <3>2. u[i - 1] = s[m] /\ u[i] = t[1]
      BY <1>4, <1>5, <2>1, <3>1
    <3>3. s[m].do \notin Firsts /\ t[1].do \notin Seconds \cup WriteBacks
      BY <1>2, <1>4, <3>1 DEF FreshProgram, FileProgramFits
    <3>4. QED
      BY <3>2, <3>3 DEF FileCallFollows, Firsts, Seconds, WriteBacks
  <2>4. CASE i > m + 1
    <3>1. i - m \in (1..n) \ {1} /\ (i - 1) - m = (i - m) - 1 /\ ~(i <= m) /\ ~(i - 1 <= m)
      BY <1>4, <2>4
    <3>2. u[i - 1] = t[(i - m) - 1] /\ u[i] = t[i - m]
      BY <1>5, <2>1, <3>1
    <3>3. QED
      BY <1>4, <3>1, <3>2 DEF FreshProgram, FileProgramFits
  <2>5. QED
    BY <1>4, <2>2, <2>3, <2>4
<1>9. m + n # 0 => u[m + n].do \notin Firsts
  <2>1. CASE n # 0
    <3>1. m + n \in 1..m + n /\ ~(m + n <= m) /\ (m + n) - m = n
      BY <1>4, <2>1
    <3>2. QED
      BY <1>3, <1>4, <1>5, <2>1, <3>1 DEF FreshProgram, FileProgramFits
  <2>2. CASE n = 0 /\ m # 0
    <3>1. m + n \in 1..m + n /\ m + n <= m /\ m + n = m
      BY <1>4, <2>2
    <3>2. QED
      BY <1>2, <1>4, <1>5, <2>2, <3>1 DEF FreshProgram, FileProgramFits
  <2>3. QED
    BY <1>4, <2>1, <2>2
<1>10. m + n # 0 => u[1].do \notin Seconds \cup WriteBacks
  <2>1. CASE m # 0
    <3>1. 1 \in 1..m + n /\ 1 <= m
      BY <1>4, <2>1
    <3>2. QED
      BY <1>4, <1>5, <2>1, <3>1 DEF FreshProgram
  <2>2. CASE m = 0 /\ n # 0
    <3>1. 1 \in 1..m + n /\ ~(1 <= m) /\ 1 - m = 1
      BY <1>4, <2>2
    <3>2. QED
      BY <1>4, <1>5, <2>2, <3>1 DEF FreshProgram
  <2>3. QED
    BY <1>4, <2>1, <2>2
<1>11. FileProgramFits(q, u)
  BY <1>5, <1>6, <1>7, <1>8, <1>9 DEF FileProgramFits
<1>12. QED
  BY <1>1, <1>4, <1>6, <1>10, <1>11 DEF FreshProgram

\* What loadStoredImage reads, and whoever read it writes back.
LEMMA ReadPrograms ==
    ASSUME NEW q, q.scope \in Pictures, NEW thumbnail \in BOOLEAN, NEW f
    PROVE  /\ FreshProgram(q, loadStoredImage(thumbnail)) /\ loadStoredImage(thumbnail) # <<>>
           /\ FileProgramFits(q, WriteBack(f, thumbnail))
           /\ WriteBack(f, thumbnail) # <<>> => WriteBack(f, thumbnail)[1].do \in WriteBacks
<1> DEFINE a == Call("ReadThumbnail", thumbnail)
           b == Call("ReadFull", thumbnail)
           c == Call("WriteBackFull", None)
           d == Call("WriteBackThumbnail", None)
<1>1. \A e \in {a, b, c, d} : FileCallFits(q, e)
  BY DEF FileCallFits, Call, Firsts, Seconds, WriteBacks
<1>2. FreshProgram(q, <<>>) /\ FreshProgram(q, <<a>>) /\ FreshProgram(q, <<b>>)
  BY <1>1, SmallPrograms DEF Call, Firsts, Seconds, WriteBacks
<1>3. FreshProgram(q, loadStoredImage(thumbnail)) /\ loadStoredImage(thumbnail) # <<>>
  <2>1. <<b>> # <<>>
    OBVIOUS
  <2>2. FreshProgram(q, <<a>> \o <<b>>) /\ <<a>> \o <<b>> # <<>>
    BY <1>2, <2>1, ConcatFresh
  <2>3. FreshProgram(q, <<>> \o <<b>>) /\ <<>> \o <<b>> # <<>>
    BY <1>2, <2>1, ConcatFresh
  <2>4. QED
    BY <2>2, <2>3 DEF loadStoredImage
<1>4. PICK s : s = IF f.oversized THEN <<c>> ELSE <<>>
  OBVIOUS
<1>5. PICK t : t = IF thumbnail THEN <<d>> ELSE <<>>
  OBVIOUS
<1>6. /\ IsProgram(s) /\ IsProgram(t)
      /\ (Len(s) = 1 /\ s[1] = c) \/ Len(s) = 0
      /\ (Len(t) = 1 /\ t[1] = d) \/ Len(t) = 0
  BY <1>4, <1>5, TuplesArePrograms
<1>7. PICK w : w = s \o t
  OBVIOUS
<1>8. /\ IsProgram(w) /\ Len(w) = Len(s) + Len(t)
      /\ \A i \in 1..Len(s) + Len(t) : w[i] = IF i <= Len(s) THEN s[i] ELSE t[i - Len(s)]
  BY <1>6, <1>7, ProgramConcat
<1>9. /\ Len(w) \in {0, 1, 2} /\ DOMAIN w = 1..Len(w)
      /\ Len(w) = 1 => w[1] \in {c, d}
      /\ Len(w) = 2 => w[1] = c /\ w[2] = d
  BY <1>6, <1>8, ProgramLength
<1>10. FileCallFollows(c, d) /\ {c.do, d.do} \subseteq WriteBacks
  BY DEF FileCallFollows, Call, WriteBacks, Firsts
<1>11. w # <<>> => Len(w) # 0
  BY <1>8 DEF IsProgram
<1>12. FileProgramFits(q, w)
  <2>1. \A i \in DOMAIN w : w[i] \in {c, d}
    BY <1>9
  <2>2. \A i \in DOMAIN w \ {1} : i = 2 /\ i - 1 = 1 /\ Len(w) = 2
    BY <1>9
  <2>3. w # <<>> => w[Len(w)] \in {c, d}
    BY <1>9, <1>11
  <2>4. QED
    BY <1>1, <1>8, <1>9, <1>10, <2>1, <2>2, <2>3 DEF FileProgramFits, WriteBacks, Firsts
<1>13. w # <<>> => w[1].do \in WriteBacks
  BY <1>9, <1>10, <1>11
<1>14. QED
  BY <1>3, <1>4, <1>5, <1>7, <1>12, <1>13 DEF WriteBack

\* The wishes of a list, in some order, each with both of its files.
LEMMA DeletionPrograms ==
    ASSUME NEW q, q.op = "DeleteWishlist", NEW S, S \subseteq Wishes
    PROVE  FreshProgram(q, ForEach(SetToSeq(S), 2, deleteImageFiles))
<1>1. PICK ids : ids = SetToSeq(S)
  OBVIOUS
<1>2. PICK n : n = Cardinality(S)
  OBVIOUS
<1>3. IsFiniteSet(S) /\ n \in Nat
  BY <1>2, FS_Subset, FS_CardinalityType, ImagesAssumption
<1>4. ids \in [1..n -> S]
  <2>1. ExistsBijection(1..n, S)
    BY <1>2, <1>3, FS_CardinalityType
  <2>2. \E f \in [1..n -> S] : IsInjective(f)
    BY <2>1 DEF ExistsBijection, Bijection, Injection
  <2>3. QED
    BY <1>1, <1>2, <2>2 DEF SetToSeq
<1>5. Len(ids) = n
  BY <1>3, <1>4
<1>6. PICK s : s = ForEach(ids, 2, deleteImageFiles)
  OBVIOUS
<1>7. s = [i \in 1..2 * n |-> deleteImageFiles(ids[((i - 1) \div 2) + 1])[((i - 1) % 2) + 1]]
  BY <1>5, <1>6 DEF ForEach
<1>8. 2 * n \in Nat /\ s = [i \in 1..2 * n |-> s[i]]
  BY <1>3, <1>7
<1>9. IsProgram(s) /\ Len(s) = 2 * n /\ DOMAIN s = 1..2 * n
  BY <1>8, FunctionIsProgram
<1>10. ASSUME NEW k \in 1..n
       PROVE  /\ ids[k] \in Wishes
              /\ s[2 * k - 1] = Call("RemoveFull", ids[k])
              /\ s[2 * k] = Call("RemoveThumbnail", ids[k])
  <2>1. ids[k] \in Wishes
    BY <1>4
  <2>2. /\ {2 * k - 1, 2 * k} \subseteq 1..2 * n
        /\ ((2 * k - 1 - 1) \div 2) + 1 = k /\ ((2 * k - 1 - 1) % 2) + 1 = 1
        /\ ((2 * k - 1) \div 2) + 1 = k /\ ((2 * k - 1) % 2) + 1 = 2
    BY <1>3, LoopsOfTwo
  <2>3. s[2 * k - 1] = deleteImageFiles(ids[k])[1] /\ s[2 * k] = deleteImageFiles(ids[k])[2]
    BY <1>7, <2>2
  <2>4. QED
    BY <2>1, <2>3 DEF deleteImageFiles
<1>11. ASSUME NEW k \in 1..n
       PROVE  /\ FileCallFits(q, s[2 * k - 1]) /\ FileCallFits(q, s[2 * k])
              /\ s[2 * k - 1].do = "RemoveFull" /\ s[2 * k].do = "RemoveThumbnail"
              /\ s[2 * k - 1].arg = s[2 * k].arg
  <2>1. \A d \in {"RemoveFull", "RemoveThumbnail"}, w \in Wishes :
           FileCallFits(q, Call(d, w)) /\ Call(d, w).do = d /\ Call(d, w).arg = w
    BY DEF FileCallFits, Call, Touches, Pictures, Firsts, Seconds, WriteBacks
  <2>2. QED
    BY <1>10, <2>1
<1>12. \A i \in 1..2 * n : \E k \in 1..n : i \in {2 * k - 1, 2 * k}
  BY <1>3, LoopsOfTwo
<1>13. \A i \in DOMAIN s : FileCallFits(q, s[i])
  BY <1>9, <1>11, <1>12
<1>14. ASSUME NEW i \in DOMAIN s \ {1} PROVE FileCallFollows(s[i - 1], s[i])
  <2>1. PICK k \in 1..n : i \in {2 * k - 1, 2 * k}
    BY <1>9, <1>12
  <2>2. CASE i = 2 * k
    BY <1>3, <1>11, <2>2 DEF FileCallFollows, Firsts
  <2>3. CASE i = 2 * k - 1
    <3>1. k - 1 \in 1..n /\ i - 1 = 2 * (k - 1)
      BY <1>3, <1>14, <2>3
    <3>2. s[i - 1].do = "RemoveThumbnail" /\ s[i].do = "RemoveFull"
      BY <1>11, <2>3, <3>1
    <3>3. QED
      BY <3>2 DEF FileCallFollows, Firsts
  <2>4. QED
    BY <2>1, <2>2, <2>3
<1>15. s # <<>> => n \in 1..n /\ 1 \in 1..n /\ 2 * 1 - 1 = 1
  BY <1>3, <1>9 DEF IsProgram
<1>16. s # <<>> => s[Len(s)].do \notin Firsts /\ s[1].do \notin Seconds \cup WriteBacks
  <2>1. s # <<>> => s[2 * n].do = "RemoveThumbnail" /\ s[2 * 1 - 1].do = "RemoveFull"
    BY <1>11, <1>15
  <2>2. QED
    BY <1>9, <1>15, <2>1 DEF Firsts, Seconds, WriteBacks
<1>17. QED
  BY <1>1, <1>6, <1>9, <1>13, <1>14, <1>16 DEF FreshProgram, FileProgramFits

-----------------------------------------------------------------------------
(* A request that arrives.                                                  *)

\* It meets those that are busy with a picture of its own, which counts as torn then.
LEMMA AcceptKeepsInv ==
    ASSUME ImagesInv, NEW r \in Requests, NEW op, NEW a, NEW x, NEW program, program # <<>>,
           \A q : q.op = op /\ q.scope = a => FreshProgram(q, program),
           Accept(r, op, a, x, program)
    PROVE  ImagesInv'
<1> DEFINE q == [NoRequest EXCEPT !.op = op, !.scope = a]
           shared == {b \in Pictures : Touches(q, b) /\ Touching(b) # {}}
<1>1. q.op = op /\ q.scope = a
  BY DEF NoRequest
<1>2. /\ Begin(r, op, None, a, program)
      /\ met' = met \cup UNION {(Touching(b) \cup {r}) \X {b} : b \in shared}
      /\ left' = Torn(shared)
      /\ row' = row /\ listed' = listed /\ full' = full /\ thumb' = thumb
  BY DEF Accept, files
<1>3. FreshProgram(q, program)
  BY <1>1
<1>4. PICK y : y = req'[r]
  OBVIOUS
<1>5. /\ OnlyMoves(r) /\ req[r] = NoRequest
      /\ y.op = op /\ y.scope = a /\ y.todo = program /\ y.reply = "pending"
  BY <1>2, <1>3, <1>4, BeginStep DEF FreshProgram, FileProgramFits, ImagesInv, Holds
<1>6. /\ FileReady(y) /\ y # NoRequest
      /\ \A p : ~Halfway(y, p) /\ ~WritesBack(y, p)
      /\ \A p : Touches(y, p) <=> Touches(q, p)
  <2>1. FreshProgram(y, program)
    BY <1>5
  <2>2. program[1] = Head(program)
    BY <2>1, ProgramTail DEF FreshProgram, FileProgramFits
  <2>3. \A p : ~Halfway(y, p) /\ ~WritesBack(y, p)
    BY <1>5, <2>1, <2>2 DEF FreshProgram, Halfway, WritesBack
  <2>4. \A p : Touches(y, p) <=> Touches(q, p)
    BY <1>1, <1>5 DEF Touches
  <2>5. QED
    BY <1>5, <2>1, <2>3, <2>4 DEF FreshProgram, FileReady, NoRequest
<1>7. req[r].todo = <<>> /\ req[r].reply = "none" /\ \A p : ~Halfway(req[r], p)
  BY <1>5 DEF NoRequest, Halfway
<1>8. \A s \in Requests \ {r} : req'[s] = req[s]
  BY <1>5 DEF OnlyMoves
<1>9. \A p \in Pictures :
         /\ left'[p] = IF p \in shared THEN "torn" ELSE left[p]
         /\ \A s : <<s, p>> \in met' <=>
               <<s, p>> \in met \/ (p \in shared /\ s \in Touching(p) \cup {r})
         /\ Touching(p)' = Touching(p) \cup (IF Touches(q, p) THEN {r} ELSE {})
         /\ r \notin Touching(p)
  <2>1. ASSUME NEW p \in Pictures
        PROVE  left'[p] = IF p \in shared THEN "torn" ELSE left[p]
    BY <1>2 DEF Torn
  <2>2. ASSUME NEW p \in Pictures, NEW s
        PROVE  <<s, p>> \in met' <=>
                  <<s, p>> \in met \/ (p \in shared /\ s \in Touching(p) \cup {r})
    BY <1>2
  <2>3. ASSUME NEW p \in Pictures
        PROVE  /\ Touching(p)' = Touching(p) \cup (IF Touches(q, p) THEN {r} ELSE {})
               /\ r \notin Touching(p)
    BY <1>4, <1>5, <1>6, <1>7, <1>8 DEF Touching, InFlight, Pending
  <2>4. QED
    BY <2>1, <2>2, <2>3
<1> HIDE DEF q, shared
<1>10. ImagesTypeOK'
  <2>1. met' \subseteq Requests \X Pictures
    <3>1. \A b \in shared : b \in Pictures /\ Touching(b) \subseteq Requests
      BY DEF shared, Touching, InFlight
    <3>2. UNION {(Touching(b) \cup {r}) \X {b} : b \in shared} \subseteq Requests \X Pictures
      BY <3>1
    <3>3. QED
      BY <1>2, <3>2 DEF ImagesInv, ImagesTypeOK
  <2>2. left' \in [Pictures -> Uploads \cup {None, "torn"}]
    BY <1>2, <1>9 DEF Torn, ImagesInv, ImagesTypeOK
  <2>3. QED
    BY <1>2, <1>5, <2>1, <2>2 DEF OnlyMoves, RequestsFit, ImagesInv, ImagesTypeOK
<1>11. \A m \in met' : req'[m[1]] # NoRequest
  <2>1. ASSUME NEW m \in met' PROVE req'[m[1]] # NoRequest
    <3>1. PICK s \in Requests, p \in Requests \cup Pictures : m = <<s, p>> /\ p \in Pictures
      BY <1>10, <2>1 DEF ImagesTypeOK
    <3>2. CASE s = r
      BY <1>4, <1>6, <3>1, <3>2
    <3>3. CASE s # r
      <4>1. <<s, p>> \in met \/ s \in Touching(p)
        BY <1>9, <2>1, <3>1, <3>3
      <4>2. s \in Touching(p) => req[s].reply = "pending"
        BY DEF Touching, InFlight, Pending
      <4>3. req[s] # NoRequest
        <5>1. CASE <<s, p>> \in met
          <6>1. <<s, p>>[1] = s
            OBVIOUS
          <6>2. QED
            BY <5>1, <6>1 DEF ImagesInv
        <5>2. CASE s \in Touching(p)
          BY <4>2, <5>2 DEF NoRequest
        <5>3. QED
          BY <4>1, <5>1, <5>2
      <4>4. QED
        BY <1>8, <3>1, <3>3, <4>3
    <3>4. QED
      BY <3>2, <3>3
  <2>2. QED
    BY <2>1
<1>12. ASSUME NEW p \in Pictures PROVE PictureFits(p)'
  <2>1. PictureFits(p)
    BY DEF ImagesInv
  <2>2. <<r, p>> \notin met
    <3>1. <<r, p>>[1] = r
      OBVIOUS
    <3>2. QED
      BY <1>5, <3>1 DEF ImagesInv
  <2>3. \A s \in Requests : /\ Halfway(req'[s], p) <=> Halfway(req[s], p)
                            /\ Halfway(req'[s], p) => s # r
                            /\ WritesBack(req'[s], p) => s # r /\ req'[s] = req[s]
    BY <1>4, <1>6, <1>7, <1>8
  <2>4. HalfFits(p)'
    BY <1>2, <1>8, <1>9, <2>1, <2>3 DEF PictureFits, HalfFits, FirstOf
  <2>5. ReadersFit(p)'
    BY <1>9, <2>1, <2>3 DEF PictureFits, ReadersFit
  <2>6. FilesAgree(p)'
    BY <1>2, <1>9, <2>1, <2>3 DEF PictureFits, FilesAgree, Agree
  <2>7. Meets(p)'
    <3>1. CASE p \in shared
      BY <1>9, <2>1, <3>1 DEF PictureFits, Meets, shared
    <3>2. CASE p \notin shared /\ Touches(q, p)
      <4>1. Touching(p)' = {r} /\ <<r, p>> \notin met'
        BY <1>9, <2>2, <3>2 DEF shared
      <4>2. QED
        BY <4>1 DEF Meets
    <3>3. CASE p \notin shared /\ ~Touches(q, p)
      BY <1>9, <2>1, <3>3 DEF PictureFits, Meets
    <3>4. QED
      BY <3>1, <3>2, <3>3
  <2>8. QED
    BY <2>4, <2>5, <2>6, <2>7 DEF PictureFits
<1>13. \A s \in Requests : FileReady(req'[s])
  BY <1>4, <1>6, <1>8 DEF ImagesInv
<1>14. QED
  BY <1>5, <1>10, <1>11, <1>12, <1>13 DEF ImagesInv, OnlyMoves

\* What the handlers accept are such programs.
LEMMA UpdateKeepsInv ==
    ASSUME ImagesInv, NEW r \in Requests, NEW op, NEW p \in Pictures, NEW change,
           Update(r, op, p, change)
    PROVE  ImagesInv'
<1> DEFINE a == Call("GetRow", p)
           b == Call("SaveRow", "enabled")
           s == CASE change = "upload" -> storeUploadedImage(p)
                  [] change = "delete" -> deleteImageFiles(p)
                  [] OTHER -> <<>>
<1>1. ASSUME NEW q, q.op = op, q.scope = p
      PROVE  FreshProgram(q, (<<a>> \o s) \o <<b>>) /\ (<<a>> \o s) \o <<b>> # <<>>
  <2>1. FileCallFits(q, a) /\ FileCallFits(q, b)
    BY <1>1 DEF FileCallFits, Call, Firsts, Seconds, WriteBacks
  <2>2. FreshProgram(q, <<a>>) /\ FreshProgram(q, <<b>>)
    BY <2>1, SmallPrograms DEF Call, Firsts, Seconds, WriteBacks
  <2>3. FreshProgram(q, s)
    BY <1>1, SmallPrograms DEF Touches
  <2>4. <<b>> # <<>>
    OBVIOUS
  <2>5. QED
    BY <2>2, <2>3, <2>4, ConcatFresh
<1>2. (<<a>> \o s) \o <<b>> # <<>>
  <2>1. \E q : q.op = op /\ q.scope = p
    <3>1. PICK y : y = [op |-> op, scope |-> p]
      OBVIOUS
    <3>2. y.op = op /\ y.scope = p
      BY <3>1
    <3>3. QED
      BY <3>2
  <2>2. QED
    BY <1>1, <2>1
<1>3. Accept(r, op, p, None, (<<a>> \o s) \o <<b>>)
  BY DEF Update
<1> HIDE DEF s, a, b
<1>4. QED
  BY <1>1, <1>2, <1>3, AcceptKeepsInv

\* Deletions read and save the row, and remove the files.
LEMMA DeleteKeepsInv ==
    ASSUME ImagesInv, NEW r \in Requests, NEW op, NEW p \in Pictures, Delete(r, op, p)
    PROVE  ImagesInv'
<1> DEFINE a == Call("GetRow", p)
           b == Call("SaveRow", "deleted")
<1>1. PICK t : t = <<a, b>>
  OBVIOUS
<1>2. IsProgram(t) /\ Len(t) = 2 /\ t[1] = a /\ t[2] = b /\ DOMAIN t = {1, 2} /\ t # <<>>
  BY <1>1, TuplesArePrograms
<1>3. ASSUME NEW q, q.op = op, q.scope = p
      PROVE  FreshProgram(q, t \o deleteImageFiles(p)) /\ t \o deleteImageFiles(p) # <<>>
  <2>1. FileCallFits(q, a) /\ FileCallFits(q, b) /\ FileCallFollows(a, b)
    BY <1>3 DEF FileCallFits, FileCallFollows, Call, Firsts, Seconds, WriteBacks
  <2>2. FreshProgram(q, t)
    BY <1>2, <2>1 DEF FreshProgram, FileProgramFits, Call, Firsts, Seconds, WriteBacks
  <2>3. FreshProgram(q, deleteImageFiles(p))
    BY <1>3, SmallPrograms DEF Touches
  <2>4. QED
    BY <1>2, <2>2, <2>3, ConcatFresh
<1>4. t \o deleteImageFiles(p) # <<>>
  <2>1. PICK y : y = [op |-> op, scope |-> p]
    OBVIOUS
  <2>2. y.op = op /\ y.scope = p
    BY <2>1
  <2>3. QED
    BY <1>3, <2>2
<1>5. Accept(r, op, p, None, t \o deleteImageFiles(p))
  BY <1>1 DEF Delete
<1>6. QED
  BY <1>3, <1>4, <1>5, AcceptKeepsInv

\* A wish is created, and its picture stored when there is one.
LEMMA RegisterWishKeepsInv ==
    ASSUME ImagesInv, NEW r \in Requests, NEW p \in Wishes, NEW upload \in BOOLEAN,
           RegisterWish(r, p, upload)
    PROVE  ImagesInv'
<1> DEFINE a == Call("CreateWish", p)
<1>1. PICK s : s = <<a>>
  OBVIOUS
<1>2. PICK t : t = IF upload THEN storeUploadedImage(p) ELSE <<>>
  OBVIOUS
<1>3. s # <<>> /\ p \in Pictures
  BY <1>1 DEF Pictures
<1>4. ASSUME NEW q, q.op = "RegisterWish", q.scope = p
      PROVE  FreshProgram(q, s \o t) /\ s \o t # <<>>
  <2>1. FileCallFits(q, a)
    BY <1>4 DEF FileCallFits, Call, Firsts, Seconds, WriteBacks
  <2>2. FreshProgram(q, s)
    BY <1>1, <2>1, SmallPrograms DEF Call, Firsts, Seconds, WriteBacks
  <2>3. FreshProgram(q, t)
    BY <1>2, <1>3, <1>4, SmallPrograms DEF Touches
  <2>4. QED
    BY <1>3, <2>2, <2>3, ConcatFresh
<1>5. s \o t # <<>>
  <2>1. PICK y : y = [op |-> "RegisterWish", scope |-> p]
    OBVIOUS
  <2>2. y.op = "RegisterWish" /\ y.scope = p
    BY <2>1
  <2>3. QED
    BY <1>4, <2>2
<1>6. Accept(r, "RegisterWish", p, None, s \o t)
  BY <1>1, <1>2 DEF RegisterWish
<1>7. QED
  BY <1>4, <1>5, <1>6, AcceptKeepsInv

\* A wishlist is deleted: nothing is known of its pictures yet.
LEMMA DeleteWishlistKeepsInv ==
    ASSUME ImagesInv, NEW r \in Requests, DeleteWishlist(r)
    PROVE  ImagesInv'
<1> DEFINE a == Call("ownsList", None)
           b == Call("DeleteWishlist", None)
           c == Call("GetWishIDsFromWishlist", None)
<1>1. PICK t : t = <<a, b, c>>
  OBVIOUS
<1>2. IsProgram(t) /\ Len(t) = 3 /\ t[1] = a /\ t[2] = b /\ t[3] = c /\ DOMAIN t = {1, 2, 3}
  BY <1>1, TuplesArePrograms
<1>3. ASSUME NEW q, q.op = "DeleteWishlist", q.scope = None
      PROVE  FreshProgram(q, t)
  <2>1. \A e \in {a, b, c} : FileCallFits(q, e)
    BY <1>3 DEF FileCallFits, Call, Firsts, Seconds, WriteBacks
  <2>2. FileCallFollows(a, b) /\ FileCallFollows(b, c)
    BY DEF FileCallFollows, Call, Firsts
  <2>3. FileProgramFits(q, t)
    <3>1. \A i \in DOMAIN t : t[i] \in {a, b, c}
      BY <1>2
    <3>2. \A i \in DOMAIN t \ {1} : FileCallFollows(t[i - 1], t[i])
      <4>1. \A i \in DOMAIN t \ {1} : (i = 2 /\ i - 1 = 1) \/ (i = 3 /\ i - 1 = 2)
        BY <1>2
      <4>2. QED
        BY <1>2, <2>2, <4>1
    <3>3. t[Len(t)].do \notin Firsts
      BY <1>2 DEF Call, Firsts
    <3>4. QED
      BY <1>2, <2>1, <3>1, <3>2, <3>3 DEF FileProgramFits
  <2>4. QED
    BY <1>2, <2>3 DEF FreshProgram, Call, Seconds, WriteBacks
<1>4. Accept(r, "DeleteWishlist", None, None, t) /\ t # <<>>
  BY <1>1 DEF DeleteWishlist
<1>5. QED
  BY <1>3, <1>4, AcceptKeepsInv

\* A picture is asked for.
LEMMA ReadKeepsInv ==
    ASSUME ImagesInv, NEW r \in Requests, NEW op, NEW p \in Pictures, NEW thumbnail \in BOOLEAN,
           NEW a, a \in {Call("GetRow", p), Call("GetWishlistByWishID", p)},
           Accept(r, op, p, None, <<a>> \o loadStoredImage(thumbnail))
    PROVE  ImagesInv'
<1>1. PICK s : s = <<a>>
  OBVIOUS
<1>2. ASSUME NEW q, q.op = op, q.scope = p
      PROVE  /\ FreshProgram(q, s \o loadStoredImage(thumbnail))
             /\ s \o loadStoredImage(thumbnail) # <<>>
  <2>1. FileCallFits(q, a)
    BY <1>2 DEF FileCallFits, Call, Firsts, Seconds, WriteBacks
  <2>2. FreshProgram(q, s) /\ s # <<>>
    BY <1>1, <2>1, SmallPrograms DEF Call, Firsts, Seconds, WriteBacks
  <2>3. FreshProgram(q, loadStoredImage(thumbnail))
    BY <1>2, ReadPrograms
  <2>4. QED
    BY <2>2, <2>3, ConcatFresh
<1>3. s \o loadStoredImage(thumbnail) # <<>>
  <2>1. PICK y : y = [op |-> op, scope |-> p]
    OBVIOUS
  <2>2. y.op = op /\ y.scope = p
    BY <2>1
  <2>3. QED
    BY <1>2, <2>2
<1>4. QED
  BY <1>1, <1>2, <1>3, AcceptKeepsInv

\* Whatever request arrives.
LEMMA TakeUpKeepsInv ==
    ASSUME ImagesInv, NEW r \in Requests, TakeUpRequest(r)
    PROVE  ImagesInv'
<1>0. Wishes \subseteq Pictures /\ Users \subseteq Pictures
  BY DEF Pictures
<1>1. ASSUME NEW p \in Wishes, NEW upload \in BOOLEAN, RegisterWish(r, p, upload)
      PROVE  ImagesInv'
  BY <1>1, RegisterWishKeepsInv
<1>2. ASSUME NEW p, NEW change, APIUpdateWish(r, p, change) \/ UpdateUser(r, p, change)
      PROVE  ImagesInv'
  BY <1>0, <1>2, UpdateKeepsInv DEF APIUpdateWish, UpdateUser
<1>3. ASSUME NEW p, DeleteWish(r, p) \/ APIDeleteUser(r, p)
      PROVE  ImagesInv'
  BY <1>0, <1>3, DeleteKeepsInv DEF DeleteWish, APIDeleteUser
<1>4. CASE DeleteWishlist(r)
  BY <1>4, DeleteWishlistKeepsInv
<1>5. ASSUME NEW p, NEW thumbnail \in BOOLEAN,
             APIGetWishImage(r, p, thumbnail) \/ APIGetUserProfileImage(r, p, thumbnail)
      PROVE  ImagesInv'
  BY <1>0, <1>5, ReadKeepsInv DEF APIGetWishImage, APIGetUserProfileImage
<1>6. QED
  BY <1>1, <1>2, <1>3, <1>4, <1>5 DEF TakeUpRequest

-----------------------------------------------------------------------------
(* The calls to the database.                                               *)

\* Tables of pictures are as they can be.
LEMMA RowsAreTyped ==
    ASSUME ImagesInv
    PROVE  /\ row \in [Pictures -> {"absent", "enabled", "deleted"}] /\ listed \in BOOLEAN
           /\ full \in [Pictures -> [of: Uploads, oversized: BOOLEAN] \cup {NoFile}]
           /\ \A p \in Pictures : full[p].oversized => full[p].of = Legacy
           /\ thumb \in [Pictures -> Uploads \cup {None}]
           /\ left \in [Pictures -> Uploads \cup {None, "torn"}]
BY DEF ImagesInv, ImagesTypeOK

\* A call that is done, or refused, and is not about files.
LEMMA QuietCallKeepsInv ==
    ASSUME ImagesInv, NEW r \in Requests, Pending(r),
           Done(r) \/ Answer(r, "refused") \/ Answer(r, "ok"),
           UNCHANGED <<files, met, left>>,
           row' \in [Pictures -> {"absent", "enabled", "deleted"}], listed' \in BOOLEAN,
           Head(req[r].todo).do \notin Firsts \cup Seconds \cup WriteBacks
    PROVE  ImagesInv'
<1>1. FileMoves(r) /\ \A p : ~Halfway(req'[r], p) /\ ~WritesBack(req'[r], p)
  <2>1. CASE Done(r)
    <3>1. PICK q : q = req[r]
      OBVIOUS
    <3>2. PICK h : h = Head(q.todo)
      OBVIOUS
    <3>3. h.do \notin Firsts \cup Seconds \cup WriteBacks
      BY <3>1, <3>2
    <3>4. PICK y : y = req'[r]
      OBVIOUS
    <3>5. FileMoves(r) /\ LeftBy(q, h, y)
      BY <2>1, <3>1, <3>2, <3>4, DoneMoves
    <3>6. h.do # "WriteBackFull"
      BY <3>3 DEF WriteBacks
    <3>7. QED
      BY <3>3, <3>4, <3>5, <3>6 DEF LeftBy
  <2>2. CASE \E reply \in {"refused", "ok"} : Answer(r, reply)
    BY <2>2, AnswerMoves DEF Replies
  <2>3. QED
    BY <2>1, <2>2
<1>2. QED
  BY <1>1, QuietStep

\* The calls that read or write rows.
LEMMA RowCallsKeepInv ==
    ASSUME ImagesInv, NEW r \in Requests,
           \/ OwnsList(r) \/ GetRow(r) \/ GetWishlistByWishID(r) \/ CreateWish(r)
           \/ SaveRow(r) \/ DisableWishlist(r) \/ ReadThumbnail(r)
    PROVE  ImagesInv'
<1>1. PICK q : q = req[r]
  OBVIOUS
<1>2. PICK h : h = Head(q.todo)
  OBVIOUS
<1>3. /\ row \in [Pictures -> {"absent", "enabled", "deleted"}] /\ listed \in BOOLEAN
  BY RowsAreTyped
<1>4. Arg(r) = h.arg
  BY <1>1, <1>2 DEF Arg
<1>5. CASE OwnsList(r)
  <2>1. h.do = "ownsList" /\ Pending(r)
    BY <1>1, <1>2, <1>5 DEF OwnsList, At
  <2>2. h.do \notin Firsts \cup Seconds \cup WriteBacks
    BY <2>1 DEF Firsts, Seconds, WriteBacks
  <2>3. QED
    BY <1>1, <1>2, <1>3, <1>5, <2>1, <2>2, QuietCallKeepsInv DEF OwnsList
<1>6. CASE GetRow(r)
  <2>1. h.do = "GetRow" /\ Pending(r)
    BY <1>1, <1>2, <1>6 DEF GetRow, At
  <2>2. h.do \notin Firsts \cup Seconds \cup WriteBacks
    BY <2>1 DEF Firsts, Seconds, WriteBacks
  <2>3. QED
    BY <1>1, <1>2, <1>3, <1>6, <2>1, <2>2, QuietCallKeepsInv DEF GetRow
<1>7. CASE GetWishlistByWishID(r)
  <2>1. h.do = "GetWishlistByWishID" /\ Pending(r)
    BY <1>1, <1>2, <1>7 DEF GetWishlistByWishID, At
  <2>2. h.do \notin Firsts \cup Seconds \cup WriteBacks
    BY <2>1 DEF Firsts, Seconds, WriteBacks
  <2>3. QED
    BY <1>1, <1>2, <1>3, <1>7, <2>1, <2>2, QuietCallKeepsInv DEF GetWishlistByWishID
<1>8. CASE CreateWish(r)
  <2>1. h.do = "CreateWish" /\ Pending(r)
    BY <1>1, <1>2, <1>8 DEF CreateWish, At
  <2>2. h.do \notin Firsts \cup Seconds \cup WriteBacks
    BY <2>1 DEF Firsts, Seconds, WriteBacks
  <2>3. row' \in [Pictures -> {"absent", "enabled", "deleted"}]
    BY <1>3, <1>8 DEF CreateWish
  <2>4. QED
    BY <1>1, <1>2, <1>3, <1>8, <2>1, <2>2, <2>3, QuietCallKeepsInv DEF CreateWish
<1>9. CASE SaveRow(r)
  <2>1. h.do = "SaveRow" /\ Pending(r)
    BY <1>1, <1>2, <1>9 DEF SaveRow, At
  <2>2. h.do \notin Firsts \cup Seconds \cup WriteBacks
    BY <2>1 DEF Firsts, Seconds, WriteBacks
  <2>3. FileCallFits(q, h)
    BY <1>1, <1>2, <2>1, NextFileCall
  <2>4. row' = [row EXCEPT ![q.scope] = h.arg]
    BY <1>1, <1>4, <1>9 DEF SaveRow
  <2>5. row' \in [Pictures -> {"absent", "enabled", "deleted"}]
    BY <1>3, <2>1, <2>3, <2>4 DEF FileCallFits
  <2>6. QED
    BY <1>1, <1>2, <1>3, <1>9, <2>1, <2>2, <2>5, QuietCallKeepsInv DEF SaveRow
<1>10. CASE DisableWishlist(r)
  <2>1. h.do = "DeleteWishlist" /\ Pending(r)
    BY <1>1, <1>2, <1>10 DEF DisableWishlist, At
  <2>2. h.do \notin Firsts \cup Seconds \cup WriteBacks
    BY <2>1 DEF Firsts, Seconds, WriteBacks
  <2>3. QED
    BY <1>1, <1>2, <1>3, <1>10, <2>1, <2>2, QuietCallKeepsInv DEF DisableWishlist
<1>11. CASE ReadThumbnail(r)
  <2>1. h.do = "ReadThumbnail" /\ Pending(r)
    BY <1>1, <1>2, <1>11 DEF ReadThumbnail, At
  <2>2. h.do \notin Firsts \cup Seconds \cup WriteBacks
    BY <2>1 DEF Firsts, Seconds, WriteBacks
  <2>3. QED
    BY <1>1, <1>2, <1>3, <1>11, <2>1, <2>2, QuietCallKeepsInv DEF ReadThumbnail
<1>12. QED
  BY <1>5, <1>6, <1>7, <1>8, <1>9, <1>10, <1>11

\* The files of all wishes are about to be removed.
LEMMA ListingKeepsInv ==
    ASSUME ImagesInv, NEW r \in Requests, GetWishIDsFromWishlist(r)
    PROVE  ImagesInv'
<1> DEFINE S == {p \in Wishes : row[p] # "absent"}
<1>1. PICK q : q = req[r]
  OBVIOUS
<1>2. PICK s : s = ForEach(SetToSeq(S), 2, deleteImageFiles)
  OBVIOUS
<1>3. /\ Pending(r) /\ Head(q.todo).do = "GetWishIDsFromWishlist"
      /\ Continue(r, None, None, s)
      /\ UNCHANGED <<row, listed, files, met, left>>
  BY <1>1, <1>2 DEF GetWishIDsFromWishlist, At
<1>4. FileCallFits(q, Head(q.todo))
  BY <1>1, <1>3, NextFileCall
<1>5. q.op = "DeleteWishlist" /\ q.scope = None
  BY <1>3, <1>4 DEF FileCallFits
<1>6. FreshProgram(q, s)
  BY <1>2, <1>5, DeletionPrograms
<1>7. /\ FileMoves(r)
      /\ \A p : ~Halfway(req'[r], p) /\ ~WritesBack(req'[r], p)
  <2>1. PICK y : y = req'[r]
    OBVIOUS
  <2>2. PICK x : x = None
    OBVIOUS
  <2>3. /\ Pending(r) /\ Continue(r, q.scope, x, s) /\ FileProgramFits(q, s)
        /\ s # <<>> => s[1].do \notin Seconds \cup WriteBacks
    BY <1>3, <1>5, <1>6, <2>2 DEF FreshProgram
  <2>4. FileMoves(r) /\ AtStartOf(s, q, x, y)
    BY <1>1, <2>1, <2>3, ContinueMoves
  <2>5. QED
    BY <2>1, <2>3, <2>4 DEF AtStartOf
<1>8. QED
  BY <1>1, <1>3, <1>7, RowsAreTyped, QuietStep DEF Seconds

\* The picture is read, to be written back in the size that was asked for.
LEMMA ReadFullKeepsInv ==
    ASSUME ImagesInv, NEW r \in Requests, ReadFull(r)
    PROVE  ImagesInv'
<1>1. PICK q : q = req[r]
  OBVIOUS
<1>2. PICK h : h = Head(q.todo)
  OBVIOUS
<1>3. /\ Pending(r) /\ h.do = "ReadFull" /\ FileCallFits(q, h) /\ Arg(r) = h.arg
      /\ UNCHANGED <<row, listed, files, met, left>>
  BY <1>1, <1>2, NextFileCall DEF ReadFull, At, Arg
<1>4. h.do \notin Firsts \cup Seconds \cup WriteBacks /\ q.scope \in Pictures /\ h.arg \in BOOLEAN
  BY <1>3 DEF FileCallFits, Firsts, Seconds, WriteBacks
<1>5. PICK f : f = full[q.scope]
  OBVIOUS
<1>6. f \in [of: Uploads, oversized: BOOLEAN] \cup {NoFile}
  BY <1>4, <1>5, RowsAreTyped
<1>7. CASE f = NoFile
  <2>1. Answer(r, "ok")
    BY <1>1, <1>5, <1>7 DEF ReadFull
  <2>2. QED
    BY <1>1, <1>2, <1>3, <1>4, <2>1, RowsAreTyped, QuietCallKeepsInv
<1>8. CASE f # NoFile
  <2>1. f.of \in Uploads
    BY <1>6, <1>8
  <2>2. PICK s : s = WriteBack(f, h.arg)
    OBVIOUS
  <2>3. Continue(r, q.scope, f.of, s)
    BY <1>1, <1>3, <1>5, <1>8, <2>2 DEF ReadFull
  <2>4. FileProgramFits(q, s) /\ (s # <<>> => s[1].do \in WriteBacks)
    BY <1>4, <2>2, ReadPrograms
  <2>5. s # <<>> => s[1].do \notin Seconds
    BY <2>4 DEF Seconds, WriteBacks
  <2>6. /\ FileMoves(r)
        /\ \A p : /\ ~Halfway(req'[r], p)
                  /\ WritesBack(req'[r], p) => q.scope = p /\ req'[r].found = f.of
    <3>1. PICK y : y = req'[r]
      OBVIOUS
    <3>2. PICK x : x = f.of
      OBVIOUS
    <3>3. Pending(r) /\ x \in Uploads /\ Continue(r, q.scope, x, s) /\ FileProgramFits(q, s)
      BY <1>3, <2>1, <2>3, <2>4, <3>2
    <3>4. FileMoves(r) /\ AtStartOf(s, q, x, y)
      BY <1>1, <3>1, <3>3, ContinueMoves
    <3>5. QED
      BY <2>5, <3>1, <3>2, <3>4 DEF AtStartOf
  <2>7. Head(req[r].todo).do \notin Seconds
    BY <1>1, <1>2, <1>4
  <2>8. QED
    BY <1>3, <1>5, <2>6, <2>7, RowsAreTyped, QuietStep
<1>9. QED
  BY <1>7, <1>8

-----------------------------------------------------------------------------
(* The calls to the file system.                                            *)

\* A function with one value as it was is the function.
LEMMA SameValue ==
    ASSUME NEW S, NEW T, NEW f \in [S -> T], NEW a
    PROVE  f = [f EXCEPT ![a] = f[a]]
OBVIOUS

\* The picture a call is about is one that the request touches.
LEMMA ChangeTouches ==
    ASSUME ImagesInv, NEW r \in Requests, Pending(r), NEW q, q = req[r],
           NEW h, h = Head(q.todo), h.do \in Firsts \cup Seconds
    PROVE  /\ h.arg \in Pictures /\ Touches(q, h.arg) /\ r \in Touching(h.arg)
           /\ Arg(r) = h.arg
           /\ \A p : Halfway(q, p) <=> h.do \in Seconds /\ h.arg = p
<1>1. FileCallFits(q, h) /\ q.todo # <<>>
  BY NextFileCall
<1>2. h.arg \in Pictures /\ Touches(q, h.arg)
  BY <1>1 DEF FileCallFits
<1>3. r \in Touching(h.arg)
  BY <1>2 DEF Touching, InFlight
<1>4. QED
  BY <1>1, <1>2, <1>3 DEF Halfway, Arg

\* The picture is written, or removed: the thumbnail is next.
LEMMA FirstKeepsInv ==
    ASSUME ImagesInv, NEW r \in Requests, WriteFull(r) \/ RemoveFull(r)
    PROVE  ImagesInv'
<1>1. PICK q : q = req[r]
  OBVIOUS
<1>2. PICK h : h = Head(q.todo)
  OBVIOUS
<1>3. /\ Pending(r) /\ h.do \in Firsts /\ Done(r)
      /\ row' = row /\ listed' = listed /\ met' = met /\ thumb' = thumb /\ left' = left
  BY <1>1, <1>2 DEF WriteFull, RemoveFull, At, Firsts
<1>4. PICK a : a = h.arg
  OBVIOUS
<1>5. /\ a \in Pictures /\ Touches(q, a) /\ Arg(r) = a
      /\ \A p : ~Halfway(q, p)
  BY <1>1, <1>2, <1>3, <1>4, ChangeTouches DEF Firsts, Seconds
<1>6. /\ FileMoves(r)
      /\ \A p : Halfway(req'[r], p) <=> a = p
      /\ h.do = "WriteFull" => Head(req'[r].todo).do = "WriteThumbnail"
      /\ h.do = "RemoveFull" => Head(req'[r].todo).do = "RemoveThumbnail"
      /\ \A p : ~WritesBack(req'[r], p)
  <2>1. h.do # "WriteBackFull"
    BY <1>3 DEF Firsts
  <2>2. PICK y : y = req'[r]
    OBVIOUS
  <2>3. FileMoves(r) /\ LeftBy(q, h, y)
    BY <1>1, <1>2, <1>3, <2>2, DoneMoves
  <2>4. QED
    BY <1>3, <1>4, <2>1, <2>2, <2>3 DEF LeftBy
<1>7. PICK f : f = IF h.do = "WriteFull" THEN File(r) ELSE NoFile
  OBVIOUS
<1>8. full' = [full EXCEPT ![a] = f]
  BY <1>1, <1>2, <1>5, <1>7 DEF WriteFull, RemoveFull, At
<1>9. f \in [of: Uploads, oversized: BOOLEAN] \cup {NoFile} /\ ~f.oversized
  BY <1>7 DEF File, NoFile, Uploads
<1>10. f.of = FirstOf(r)'
  BY <1>3, <1>6, <1>7 DEF FirstOf, File, NoFile, Firsts
<1>11. PICK t : t = thumb[a]
  OBVIOUS
<1>12. PICK l : l = left[a]
  OBVIOUS
<1>13. thumb' = [thumb EXCEPT ![a] = t] /\ left' = [left EXCEPT ![a] = l]
  BY <1>3, <1>11, <1>12, RowsAreTyped, SameValue
<1>14. t \in Uploads \cup {None} /\ l \in Uploads \cup {None, "torn"}
  BY <1>5, <1>11, <1>12, RowsAreTyped
<1>15. QED
  BY <1>1, <1>3, <1>5, <1>6, <1>8, <1>9, <1>10, <1>12, <1>13, <1>14, FileStep

\* The thumbnail is written, or removed: who met nobody has left both files alike.
LEMMA SecondKeepsInv ==
    ASSUME ImagesInv, NEW r \in Requests, WriteThumbnail(r) \/ RemoveThumbnail(r)
    PROVE  ImagesInv'
<1>1. PICK q : q = req[r]
  OBVIOUS
<1>2. PICK h : h = Head(q.todo)
  OBVIOUS
<1>3. /\ Pending(r) /\ h.do \in Seconds /\ Done(r)
      /\ row' = row /\ listed' = listed /\ met' = met /\ full' = full
  BY <1>1, <1>2 DEF WriteThumbnail, RemoveThumbnail, At, Seconds
<1>4. PICK a : a = h.arg
  OBVIOUS
<1>5. /\ a \in Pictures /\ Touches(q, a) /\ r \in Touching(a) /\ Arg(r) = a
      /\ \A p : Halfway(q, p) <=> a = p
  BY <1>1, <1>2, <1>3, <1>4, ChangeTouches
<1>6. /\ FileMoves(r)
      /\ \A p : ~Halfway(req'[r], p) /\ ~WritesBack(req'[r], p)
  <2>1. h.do # "WriteBackFull" /\ h.do \notin Firsts
    BY <1>3 DEF Firsts, Seconds
  <2>2. PICK y : y = req'[r]
    OBVIOUS
  <2>3. FileMoves(r) /\ LeftBy(q, h, y)
    BY <1>1, <1>2, <1>3, <2>2, DoneMoves
  <2>4. QED
    BY <2>1, <2>2, <2>3 DEF LeftBy
<1>7. PICK t : t = FirstOf(r)
  OBVIOUS
<1>8. t = IF h.do = "WriteThumbnail" THEN r ELSE None
  BY <1>1, <1>2, <1>7 DEF FirstOf
<1>9. PICK f : f = full[a]
  OBVIOUS
<1>10. PICK l : l = IF <<r, a>> \in met THEN left[a] ELSE t
  OBVIOUS
<1>11. /\ thumb' = [thumb EXCEPT ![a] = t]
       /\ left' = [left EXCEPT ![a] = IF <<r, a>> \in met THEN @ ELSE t]
  BY <1>1, <1>2, <1>5, <1>8 DEF WriteThumbnail, RemoveThumbnail, At, Settle
<1>12. /\ f \in [of: Uploads, oversized: BOOLEAN] \cup {NoFile}
       /\ f.oversized => f.of = Legacy
       /\ full' = [full EXCEPT ![a] = f]
       /\ left[a] \in Uploads \cup {None, "torn"}
  BY <1>3, <1>5, <1>9, RowsAreTyped, SameValue
<1>13. t \in Uploads \cup {None} /\ l \in Uploads \cup {None, "torn"}
  BY <1>8, <1>10, <1>12 DEF Uploads
<1>14. left' = [left EXCEPT ![a] = l]
  BY <1>10, <1>11
<1>15. <<r, a>> \in met => left[a] = "torn"
  BY <1>5 DEF ImagesInv, PictureFits, Meets
<1>16. <<r, a>> \notin met => f.of = t
  BY <1>1, <1>5, <1>7, <1>9 DEF ImagesInv, PictureFits, HalfFits
<1>17. l # "torn" => f.of = l /\ t = l
  BY <1>10, <1>15, <1>16
<1>18. l \in {left[a], "torn"} \/ <<r, a>> \notin met
  BY <1>10
<1>19. QED
  BY <1>1, <1>3, <1>5, <1>6, <1>11, <1>12, <1>13, <1>14, <1>17, <1>18, FileStep

\* What tears the picture whose removal, or thumbnail, was next.
LEMMA TearKeepsInv ==
    ASSUME ImagesInv, NEW r \in Requests, Pending(r), NEW q, q = req[r],
           NEW h, h = Head(q.todo), h.do \in Firsts \cup Seconds,
           FileMoves(r), \A p : ~Halfway(req'[r], p) /\ ~WritesBack(req'[r], p),
           left' = Torn({h.arg}), UNCHANGED <<row, listed, files, met>>
    PROVE  ImagesInv'
<1>1. PICK a : a = h.arg
  OBVIOUS
<1>2. a \in Pictures /\ Touches(q, a) /\ \A p : Halfway(q, p) => a = p
  BY <1>1, ChangeTouches
<1>3. left' = [left EXCEPT ![a] = "torn"]
  BY <1>1, RowsAreTyped DEF Torn
<1>4. PICK f : f = full[a]
  OBVIOUS
<1>5. PICK t : t = thumb[a]
  OBVIOUS
<1>6. /\ full' = [full EXCEPT ![a] = f] /\ thumb' = [thumb EXCEPT ![a] = t]
      /\ row' = row /\ listed' = listed /\ met' = met
  BY <1>4, <1>5, RowsAreTyped, SameValue DEF files
<1>7. /\ f \in [of: Uploads, oversized: BOOLEAN] \cup {NoFile}
      /\ f.oversized => f.of = Legacy
      /\ t \in Uploads \cup {None}
  BY <1>2, <1>4, <1>5, RowsAreTyped
<1>8. QED
  BY <1>2, <1>3, <1>6, <1>7, FileStep

\* A file cannot be removed, and the rest of its picture is left.
LEMMA FailureKeepsInv ==
    ASSUME ImagesInv, NEW r \in Requests, FailToRemove(r)
    PROVE  ImagesInv'
<1>1. PICK q : q = req[r]
  OBVIOUS
<1>2. PICK h : h = Head(q.todo)
  OBVIOUS
<1>3. PICK s : s = IF h.do = "RemoveFull" THEN Tail(Tail(q.todo)) ELSE Tail(q.todo)
  OBVIOUS
<1>4. /\ Pending(r) /\ h.do \in {"RemoveFull", "RemoveThumbnail"}
      /\ Answer(r, "error") \/ Continue(r, q.scope, None, s)
      /\ left' = Torn({Arg(r)}) /\ UNCHANGED <<row, listed, files, met>>
  BY <1>1, <1>2, <1>3 DEF FailToRemove, At
<1>5. h.do \in Firsts \cup Seconds
  BY <1>4 DEF Firsts, Seconds
<1>6. Arg(r) = h.arg
  BY <1>1, <1>2, <1>4, <1>5, ChangeTouches
<1>7. FileProgramFits(q, s) /\ (s # <<>> => s[1].do \notin Seconds \cup WriteBacks)
  <2>1. FileProgramFits(q, q.todo) /\ q.todo # <<>>
    BY <1>1, <1>4, NextFileCall DEF ImagesInv, FileReady
  <2>2. PICK t : t = Tail(q.todo)
    OBVIOUS
  <2>3. /\ FileProgramFits(q, t)
        /\ t # <<>> => FileCallFollows(h, Head(t))
        /\ h.do \in Firsts => t # <<>>
    BY <1>2, <2>1, <2>2, RestFits
  <2>4. CASE h.do = "RemoveThumbnail"
    <3>1. s = t
      BY <1>3, <2>2, <2>4
    <3>2. t # <<>> => Head(t) = t[1]
      BY <2>3, ProgramTail DEF FileProgramFits
    <3>3. QED
      BY <2>3, <2>4, <3>1, <3>2 DEF FileCallFollows, Seconds, WriteBacks
  <2>5. CASE h.do = "RemoveFull"
    <3>1. s = Tail(t) /\ t # <<>> /\ Head(t).do = "RemoveThumbnail"
      BY <1>3, <2>2, <2>3, <2>5 DEF FileCallFollows, Firsts
    <3>2. FileProgramFits(q, s) /\ (s # <<>> => FileCallFollows(Head(t), Head(s)))
      BY <2>3, <3>1, RestFits
    <3>3. s # <<>> => Head(s) = s[1]
      BY <3>2, ProgramTail DEF FileProgramFits
    <3>4. QED
      BY <3>1, <3>2, <3>3 DEF FileCallFollows, Seconds, WriteBacks
  <2>6. QED
    BY <1>4, <2>4, <2>5
<1>8. FileMoves(r) /\ \A p : ~Halfway(req'[r], p) /\ ~WritesBack(req'[r], p)
  <2>1. CASE Answer(r, "error")
    BY <1>4, <2>1, AnswerMoves DEF Replies
  <2>2. CASE Continue(r, q.scope, None, s)
    <3>1. PICK y : y = req'[r]
      OBVIOUS
    <3>2. PICK x : x = None
      OBVIOUS
    <3>3. Pending(r) /\ Continue(r, q.scope, x, s)
      BY <1>4, <2>2, <3>2
    <3>4. FileMoves(r) /\ AtStartOf(s, q, x, y)
      BY <1>1, <1>7, <3>1, <3>3, ContinueMoves
    <3>5. QED
      BY <1>7, <3>1, <3>4 DEF AtStartOf
  <2>3. QED
    BY <1>4, <2>1, <2>2
<1>9. QED
  BY <1>1, <1>2, <1>4, <1>5, <1>6, <1>8, TearKeepsInv

\* What was read is written back, or not: if the picture is whole, it was what is there.
LEMMA WriteBackKeepsInv ==
    ASSUME ImagesInv, NEW r \in Requests, WriteBackFull(r) \/ WriteBackThumbnail(r)
    PROVE  ImagesInv'
<1>1. PICK q : q = req[r]
  OBVIOUS
<1>2. PICK h : h = Head(q.todo)
  OBVIOUS
<1>3. PICK a : a = q.scope
  OBVIOUS
<1>4. PICK x : x = q.found
  OBVIOUS
<1>5. /\ Pending(r) /\ h.do \in WriteBacks /\ Done(r)
      /\ full' = full \/ full' = [full EXCEPT ![a] = File(x)]
      /\ thumb' = thumb \/ thumb' = [thumb EXCEPT ![a] = x]
      /\ row' = row /\ listed' = listed /\ met' = met /\ left' = left
  BY <1>1, <1>2, <1>3, <1>4 DEF WriteBackFull, WriteBackThumbnail, At, WriteBacks
<1>6. q.todo # <<>> /\ FileCallFits(q, h)
  BY <1>1, <1>2, <1>5, NextFileCall
<1>7. a \in Pictures /\ Touches(q, a) /\ WritesBack(q, a) /\ r \in Touching(a)
  BY <1>1, <1>2, <1>3, <1>5, <1>6
     DEF FileCallFits, Touches, WritesBack, Touching, InFlight
<1>8. x \in Uploads
  BY <1>1, <1>4, <1>7 DEF ImagesInv, FileReady
<1>9. \A p : ~Halfway(q, p)
  BY <1>2, <1>5 DEF Halfway, WriteBacks, Seconds
<1>10. /\ FileMoves(r)
       /\ \A p : /\ ~Halfway(req'[r], p)
                 /\ WritesBack(req'[r], p) => a = p /\ req'[r].found = x
  <2>1. h.do \notin Firsts
    BY <1>5 DEF WriteBacks, Firsts
  <2>2. PICK y : y = req'[r]
    OBVIOUS
  <2>3. Pending(r) /\ Done(r)
    BY <1>5
  <2>4. FileMoves(r) /\ LeftBy(q, h, y)
    BY <1>1, <1>2, <2>2, <2>3, DoneMoves
  <2>5. QED
    BY <1>3, <1>4, <2>1, <2>2, <2>4 DEF LeftBy
<1>11. PICK l : l = left[a]
  OBVIOUS
<1>12. l # "torn" => /\ x = l /\ full[a].of = l
                     /\ thumb[a] = l \/ (l = Legacy /\ thumb[a] = None)
  <2>1. SUFFICES ASSUME l # "torn"
                 PROVE  /\ x = l /\ full[a].of = l
                        /\ thumb[a] = l \/ (l = Legacy /\ thumb[a] = None)
    OBVIOUS
  <2>2. PictureFits(a)
    BY <1>7 DEF ImagesInv
  <2>3. \A s \in Requests : ~Halfway(req[s], a)
    BY <1>1, <1>7, <1>9, <1>11, <2>1, AloneThere
  <2>4. Agree(a)
    BY <1>11, <2>1, <2>2, <2>3 DEF PictureFits, FilesAgree
  <2>5. x = l
    BY <1>1, <1>4, <1>7, <1>11, <2>1, <2>2 DEF PictureFits, ReadersFit
  <2>6. QED
    BY <1>11, <2>4, <2>5 DEF Agree
<1>13. PICK f : f \in {full[a], File(x)} /\ full' = [full EXCEPT ![a] = f]
  BY <1>5, RowsAreTyped, SameValue
<1>14. PICK t : t \in {thumb[a], x} /\ thumb' = [thumb EXCEPT ![a] = t]
  BY <1>5, RowsAreTyped, SameValue
<1>15. left' = [left EXCEPT ![a] = l] /\ l \in Uploads \cup {None, "torn"}
  BY <1>5, <1>7, <1>11, RowsAreTyped, SameValue
<1>16. /\ f \in [of: Uploads, oversized: BOOLEAN] \cup {NoFile}
       /\ f.oversized => f.of = Legacy
       /\ t \in Uploads \cup {None}
  <2>1. File(x) \in [of: Uploads, oversized: BOOLEAN] /\ ~File(x).oversized
    BY <1>8 DEF File
  <2>2. QED
    BY <1>7, <1>8, <1>13, <1>14, <2>1, RowsAreTyped
<1>17. l # "torn" => f.of = l /\ (t = l \/ (l = Legacy /\ t = None))
  <2>1. File(x).of = x
    BY DEF File
  <2>2. QED
    BY <1>12, <1>13, <1>14, <2>1
<1>18. l # "torn" /\ WritesBack(req'[r], a) => req'[r].found = l
  BY <1>10, <1>12
<1>19. QED
  <2>1. \A p \in Pictures \ {a} :
           ~Halfway(req[r], p) /\ ~Halfway(req'[r], p) /\ ~WritesBack(req'[r], p)
    BY <1>1, <1>9, <1>10
  <2>2. Pending(r) /\ FileMoves(r) /\ UNCHANGED <<row, listed, met>>
    BY <1>5, <1>10
  <2>3. Touches(req[r], a) /\ l \in {left[a], "torn"} /\ ~Halfway(req'[r], a)
    BY <1>1, <1>7, <1>10, <1>11
  <2>4. /\ full' = [full EXCEPT ![a] = f] /\ thumb' = [thumb EXCEPT ![a] = t]
        /\ left' = [left EXCEPT ![a] = l]
    BY <1>13, <1>14, <1>15
  <2>5. QED
    BY <1>7, <1>15, <1>16, <1>17, <1>18, <2>1, <2>2, <2>3, <2>4, FileStep

\* A request that dies tears the picture it was in the middle of.
LEMMA AbandonKeepsInv ==
    ASSUME ImagesInv, NEW r \in Requests, AbandonRequest(r)
    PROVE  ImagesInv'
<1>1. PICK q : q = req[r]
  OBVIOUS
<1>2. PICK h : h = Head(q.todo)
  OBVIOUS
<1>3. Pending(r) /\ Answer(r, "error") /\ UNCHANGED <<row, listed, files, met>>
  BY DEF AbandonRequest, Abandon
<1>4. FileMoves(r) /\ \A p : ~Halfway(req'[r], p) /\ ~WritesBack(req'[r], p)
  BY <1>3, AnswerMoves DEF Replies
<1>5. CASE h.do \in {"WriteThumbnail", "RemoveFull", "RemoveThumbnail"}
  <2>1. h.do \in Firsts \cup Seconds
    BY <1>5 DEF Firsts, Seconds
  <2>2. Arg(r) = h.arg
    BY <1>1, <1>2, <1>3, <2>1, ChangeTouches
  <2>3. left' = Torn({h.arg})
    BY <1>1, <1>2, <1>5, <2>2 DEF AbandonRequest
  <2>4. QED
    BY <1>1, <1>2, <1>3, <1>4, <2>1, <2>3, TearKeepsInv
<1>6. CASE h.do \notin {"WriteThumbnail", "RemoveFull", "RemoveThumbnail"}
  <2>1. left' = Torn({})
    BY <1>1, <1>2, <1>6 DEF AbandonRequest
  <2>2. left' = left
    BY <2>1, RowsAreTyped DEF Torn
  <2>3. Head(req[r].todo).do \notin Seconds
    BY <1>1, <1>2, <1>6 DEF Seconds
  <2>4. UNCHANGED <<files, met, left>> /\ row' = row /\ listed' = listed
    BY <1>3, <2>2
  <2>5. QED
    BY <1>3, <1>4, <2>3, <2>4, RowsAreTyped, QuietStep
<1>7. QED
  BY <1>5, <1>6

-----------------------------------------------------------------------------
(* The theorems.                                                            *)

\* At the start nobody is busy, and every picture is what an older version left.
LEMMA ImagesStart ==
    ASSUME ImagesInit
    PROVE  ImagesInv
<1>1. /\ RequestsFit /\ \A r \in Requests : req[r] = NoRequest /\ ~Pending(r)
  BY InitialRequests DEF ImagesInit
<1>2. /\ row = SeedRow /\ listed = TRUE /\ met = {}
      /\ full = [p \in Pictures |->
                    IF p \in SeedPictured THEN [of |-> Legacy, oversized |-> TRUE] ELSE NoFile]
      /\ thumb = [p \in Pictures |-> None]
      /\ left = [p \in Pictures |-> full[p].of]
  BY DEF ImagesInit
<1>3. \A p \in Pictures :
         /\ full[p] \in [of: Uploads, oversized: BOOLEAN] \cup {NoFile}
         /\ full[p].oversized => full[p].of = Legacy
         /\ thumb[p] = None /\ left[p] = full[p].of
         /\ left[p] \in {Legacy, None}
  BY <1>2 DEF NoFile, Uploads
<1>4. ImagesTypeOK
  <2>1. full \in [Pictures -> [of: Uploads, oversized: BOOLEAN] \cup {NoFile}]
    BY <1>2, <1>3
  <2>2. thumb \in [Pictures -> Uploads \cup {None}]
    BY <1>2
  <2>3. left \in [Pictures -> Uploads \cup {None, "torn"}]
    BY <1>2, <1>3 DEF Uploads
  <2>4. QED
    BY <1>1, <1>2, <1>3, <2>1, <2>2, <2>3, ImagesSeedAssumption DEF ImagesTypeOK, RequestsFit
<1>5. NoRequest.todo = <<>> /\ IsProgram(<<>>) /\ DOMAIN <<>> = {}
  BY TuplesArePrograms DEF NoRequest
<1>6. \A r \in Requests :
         FileReady(req[r]) /\ \A p : ~Halfway(req[r], p) /\ ~WritesBack(req[r], p)
  BY <1>1, <1>5 DEF FileReady, FileProgramFits, Halfway, WritesBack
<1>7. ASSUME NEW p \in Pictures PROVE PictureFits(p)
  <2>1. Agree(p)
    BY <1>3, <1>7 DEF Agree
  <2>2. Touching(p) = {}
    BY <1>1 DEF Touching, InFlight
  <2>3. QED
    BY <1>6, <2>1, <2>2 DEF PictureFits, HalfFits, ReadersFit, FilesAgree, Meets
<1>8. QED
  BY <1>1, <1>2, <1>4, <1>6, <1>7 DEF ImagesInv

\* Every action keeps the invariant.
LEMMA ImagesStepsKeepInv ==
    ASSUME ImagesInv, ImagesNext
    PROVE  ImagesInv'
<1>1. PICK r \in Requests : TakeUpRequest(r) \/ HandleRequest(r) \/ AbandonRequest(r)
  BY DEF ImagesNext
<1>2. CASE HandleRequest(r)
  BY <1>2, RowCallsKeepInv, ListingKeepsInv, ReadFullKeepsInv, FirstKeepsInv, SecondKeepsInv,
     FailureKeepsInv, WriteBackKeepsInv DEF HandleRequest
<1>3. QED
  BY <1>1, <1>2, TakeUpKeepsInv, AbandonKeepsInv

\* The invariant holds in every reachable state: between the two files of a picture is
\* at most one request, which is alone there or has torn the picture.
THEOREM ImagesInvariant == ImagesSpec => []ImagesInv
<1>1. ImagesInit => ImagesInv
  BY ImagesStart
<1>2. ImagesInv /\ [ImagesNext]_imageVars => ImagesInv'
  <2>1. ASSUME ImagesInv, UNCHANGED imageVars PROVE ImagesInv'
    BY <2>1 DEF imageVars, files, ImagesInv, RequestsFit, RequestsOK, ImagesTypeOK, Pending,
         PictureFits, HalfFits, FirstOf, ReadersFit, FilesAgree, Agree, Meets, Touching, InFlight
  <2>2. QED
    BY <2>1, ImagesStepsKeepInv
<1>3. QED
  BY <1>1, <1>2, PTL DEF ImagesSpec

\* No file, row or request is ever malformed, and only what an older version stored is
\* too large.
THEOREM ImagesTypes == ImagesSpec => []ImagesTypeOK
<1>1. ImagesInv => ImagesTypeOK
  BY DEF ImagesInv
<1>2. QED
  BY <1>1, ImagesInvariant, PTL

\* A picture nobody is busy with shows in both sizes what the last undisturbed request
\* left, whatever requests on it overlapped or failed before.
THEOREM LastUploadShown == ImagesSpec => []LastUploadIsShown
<1>1. ASSUME ImagesInv PROVE LastUploadIsShown
  <2>1. ASSUME NEW p \in Pictures, left[p] # "torn", Touching(p) = {}
        PROVE  Agree(p)
    <3>1. \A r \in Requests : ~Halfway(req[r], p)
      <4>1. ASSUME NEW r \in Requests, Halfway(req[r], p) PROVE FALSE
        <5>1. Touches(req[r], p)
          BY <1>1, <4>1, BusyTouches DEF ImagesInv
        <5>2. Pending(r)
          BY <1>1, <4>1 DEF ImagesInv, RequestsFit, RequestsOK, Halfway
        <5>3. QED
          BY <2>1, <5>1, <5>2 DEF Touching, InFlight
      <4>2. QED
        BY <4>1
    <3>2. QED
      BY <1>1, <2>1, <3>1 DEF ImagesInv, PictureFits, FilesAgree
  <2>2. QED
    BY <2>1 DEF LastUploadIsShown, Agree
<1>2. QED
  BY <1>1, ImagesInvariant, PTL

=============================================================================
