--------------------------- MODULE MCEpisodeDrafts ---------------------------
(***************************************************************************)
(* Artwork and EpisodeDrafts for TLC, from five situations the API can be  *)
(* in when no request is in flight: no chain and a draft; on the chain two *)
(* drafts with an event each, a live episode with a card, and an ended one *)
(* whose card has a branch; and a draft with an uploaded image.  Requests  *)
(* about images are made in the last only, about templates in the first.   *)
(***************************************************************************)
EXTENDS Artwork, TLC

CONSTANTS e1, e2, d1, d2, c1, x1, v1

CardOfFirst == [c \in Cards |-> e1]

Row(e) == [episode |-> e, text |-> x1, order |-> 0]

Chain(made) == [j \in Jobs |-> IF j \in made THEN 1 ELSE 0]

Situation(st, made, def, template) ==
  /\ status = st /\ settings = [e \in Episodes |-> v1]
  /\ minted = Chain(made) /\ column = Chain({j \in made : j.op # "end"})
  /\ asked = {j \in made : j.op = "branch"}
  /\ pool = <<>> /\ call = [r \in Requests |-> NoCall]
  /\ doubt = {} /\ faults = 0
  /\ defs = def /\ templates = [t \in Templates |-> template]
  /\ req = [r \in Requests |-> Idle] /\ early = [e \in Episodes |-> {}]
  /\ starts = 1

NoImages ==
  /\ files = {} /\ image = [o \in Owners |-> Null] /\ hashed = {}
  /\ images = MaxImages

OneUploaded ==
  /\ files = {Key(e1, 0)} /\ hashed = {e1}
  /\ image = [o \in Owners |-> IF o = e1 THEN Url(Key(e1, 0)) ELSE Null]
  /\ images = 0

OneDef == (d1 :> Row(e1)) @@ (d2 :> Null)
TwoDefs == (d1 :> Row(e1)) @@ (d2 :> Row(e2))

Drafting == configured = FALSE /\ Situation((e1 :> "draft") @@ (e2 :> "free"), {}, OneDef, Null)
Launching == configured = TRUE /\ Situation((e1 :> "draft") @@ (e2 :> "draft"), {}, TwoDefs, GoneTemplate)
Minting ==
  configured = TRUE /\ Situation((e1 :> "live") @@ (e2 :> "deleted"), {Job("root", e1)}, OneDef, GoneTemplate)
Ending ==
  configured = TRUE /\ Situation((e1 :> "ended") @@ (e2 :> "deleted"),
    {Job("root", e1), Job("end", e1), Job("branch", c1)}, OneDef, GoneTemplate)

Painting ==
  configured = FALSE /\ Situation((e1 :> "draft") @@ (e2 :> "deleted"), {},
    (d1 :> Row(e1)) @@ (d2 :> GoneDef), GoneTemplate)

MCInit ==
  \/ (Drafting \/ Launching \/ Minting \/ Ending) /\ NoImages
  \/ Painting /\ OneUploaded

MCSpec == MCInit /\ [][StudioNext]_allVars /\ Fairness
=============================================================================
