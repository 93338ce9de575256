-------------------------- MODULE MCBrowserRuntime --------------------------
(* A small instance of BrowserRuntime.  One run looks at three scenes,     *)
(* apart because their product is out of reach: callers that overlap on    *)
(* one board and fill the queue; one caller that gives all commands, of    *)
(* different contents, to one board; one caller that starts, stops and     *)
(* imports on two boards with different cards.                             *)
EXTENDS BrowserRuntime

CONSTANTS First,   \* the board of the scenes with one board
          Single,  \* the id of a caller that is alone
          Stopper  \* the id of a caller that finds the queue full

VARIABLE scene

mcVars == <<vars, scene>>
Scenes == {"callers", "contents", "boards"}

Boot == /\ Init
        /\ scene \in Scenes
        /\ scene # "boards" => \A b \in Boards \ {First} : stored[b] = None

Asked(c) ==
  CASE scene = "callers"  -> /\ c.board \in {First, None}
                             /\ c.image # None => c.image = TemplateImage
                             /\ c.id = Stopper => c.type = "stop" /\ Held = MaxQueue
    [] scene = "contents" -> c.board \in {First, None} /\ c.id = Single
    [] scene = "boards"   -> /\ c.id = Single
                             /\ c.type \in {"start", "stop", "import"}
                             /\ c.type = "import" => ~ c.image.located

(* Callers that overlap have cards of one content.                         *)
OneContent == /\ editable # None => editable.image.files = Template
              /\ instance # None => instance.sd.files = Template

Step == \/ Works /\ (scene = "callers" => OneContent')
        \/ Deliver
        \/ WorkerFails
        \/ \E c \in Commands : Asked(c) /\ Post(c)

Run == Boot /\ [][Step /\ UNCHANGED scene]_mcVars /\ Fairness
=============================================================================
