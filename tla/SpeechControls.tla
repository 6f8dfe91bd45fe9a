----------------------------- MODULE SpeechControls -----------------------------
(***************************************************************************)
(* web/speech: one recording of the microphone at a time, from the         *)
(* permission to the transcript (capture.js, input.js), and the voice that *)
(* reads new replies aloud (output.js).  start and stop are asynchronous   *)
(* and run into each other; a generation tells the call that still counts. *)
(***************************************************************************)
EXTENDS Integers, FiniteSets

CONSTANTS Rooms,         \* conversations the voice may read
          MaxGestures,   \* bound: gestures on the microphone and its surroundings
          MaxSays,       \* bound: replies, changes of chat and preferences
          SpeechBudgets  \* the pairs of these a behaviour may have

VARIABLES
    mic,       \* the closure of createSpeechCapture and mountSpeechInput
    starts,    \* calls of start() that have not returned
    stops,     \* calls of stop() that have not returned
    tracks,    \* generations whose microphone tracks are live
    flights,   \* generations whose transcription has not answered
    drafted,   \* generations whose transcript was put into the draft
    cancelled, \* history: the generations the person called off
    gestures,  \* bound: gestures left
    voice,     \* the closure of createSpeechOutput
    ends,      \* utterances whose end event is still to come
    replies,   \* replies each conversation holds
    says       \* bound: steps of the voice left

speechVars == <<mic, starts, stops, tracks, flights, drafted, cancelled, gestures,
                voice, ends, replies, says>>
micVars == <<mic, starts, stops, tracks, flights, drafted, cancelled, gestures>>
voiceVars == <<voice, ends, replies, says>>

Gens == 0 .. 2 * MaxGestures
Quiet == {"idle", "error"}
MicStates == Quiet \cup {"requesting", "recording", "stopping", "transcribing"}
ReplyIds == Rooms \X (1 .. MaxSays)

SpeechTypeOK ==
    /\ mic \in [state : MicStates, gen : Gens, stream : Gens, context : BOOLEAN,
                hold : BOOLEAN, held : BOOLEAN]
    /\ starts \subseteq [gen : Gens, at : {"asked", "module", "failing"}]
    /\ stops \subseteq [gen : Gens, cancel : BOOLEAN, at : {"flush", "close", "quit"}]
    /\ tracks \subseteq Gens /\ flights \subseteq Gens /\ drafted \subseteq Gens
    /\ cancelled \subseteq Gens
    /\ gestures \in 0 .. MaxGestures
    /\ voice.known \subseteq ReplyIds /\ voice.spoken \subseteq ReplyIds
    /\ voice.token \in Nat /\ ends \subseteq Nat
    /\ replies \in [Rooms -> 0 .. MaxSays] /\ says \in 0 .. MaxSays

SpeechInit ==
    /\ \E h \in BOOLEAN :
         mic = [state |-> "idle", gen |-> 0, stream |-> 0, context |-> FALSE,
                hold |-> h, held |-> FALSE]
    /\ starts = {} /\ stops = {} /\ tracks = {} /\ flights = {} /\ drafted = {}
    /\ cancelled = {}
    /\ \E b \in SpeechBudgets : gestures = b.gestures /\ says = b.says
    /\ voice = [room |-> CHOOSE k \in Rooms : TRUE, known |-> {}, spoken |-> {}, token |-> 0,
                speaking |-> FALSE, on |-> TRUE, visible |-> TRUE, twice |-> FALSE]
    /\ ends = {} /\ replies = [k \in Rooms |-> 0]

-----------------------------------------------------------------------------
(* capture.js: start. *)

\* closeGraph, up to its wait for the audio context: the tracks of the graph stop.
CloseGraph(m, next) ==
    /\ tracks' = tracks \ {m.stream}
    /\ mic' = [next EXCEPT !.stream = 0, !.context = FALSE]

BeginsStart(m) ==
    IF m.state \in Quiet
    THEN /\ mic' = [m EXCEPT !.state = "requesting", !.gen = @ + 1, !.context = TRUE]
         /\ starts' = starts \cup {[gen |-> m.gen + 1, at |-> "asked"]}
    ELSE mic' = m /\ UNCHANGED starts

Counts(s) == s.gen = mic.gen

\* A start that no longer counts stops what it acquired.
Abandons(s) == starts' = starts \ {s} /\ tracks' = tracks \ {s.gen} /\ UNCHANGED mic

\* getUserMedia answers with a stream.
Granted ==
    /\ \E s \in starts :
         /\ s.at = "asked"
         /\ IF Counts(s)
            THEN /\ tracks' = tracks \cup {s.gen}
                 /\ mic' = [mic EXCEPT !.stream = s.gen]
                 /\ starts' = (starts \ {s}) \cup {[s EXCEPT !.at = "module"]}
            ELSE starts' = starts \ {s} /\ UNCHANGED <<mic, tracks>>
    /\ UNCHANGED <<stops, flights, drafted, cancelled, gestures, voiceVars>>

\* The worklet is loaded: the recording begins.
ModuleLoads ==
    /\ \E s \in starts :
         /\ s.at = "module"
         /\ IF Counts(s)
            THEN /\ mic' = [mic EXCEPT !.state = "recording"]
                 /\ starts' = starts \ {s} /\ UNCHANGED tracks
            ELSE Abandons(s)
    /\ UNCHANGED <<stops, flights, drafted, cancelled, gestures, voiceVars>>

\* The permission is denied, the worklet fails, or capture is not supported; the
\* error is told once the graph is closed.
StartFails ==
    /\ \E s \in starts :
         \/ /\ s.at # "failing" /\ ~Counts(s) /\ Abandons(s)
         \/ /\ s.at # "failing" /\ Counts(s)
            /\ tracks' = tracks \ {s.gen, mic.stream}
            /\ mic' = [mic EXCEPT !.stream = 0, !.context = FALSE]
            /\ starts' = (starts \ {s}) \cup {[s EXCEPT !.at = "failing"]}
         \/ /\ s.at = "failing"
            /\ mic' = [mic EXCEPT !.state = "error"]
            /\ starts' = starts \ {s} /\ UNCHANGED tracks
    /\ UNCHANGED <<stops, flights, drafted, cancelled, gestures, voiceVars>>

-----------------------------------------------------------------------------
(* capture.js: stop and the transcription. *)

\* While the permission is pending: the start no longer counts.  Told idle once the
\* audio context is closed; at once when an earlier call is already closing it.
QuitsRequest(m) ==
    LET next == [m EXCEPT !.gen = @ + 1] IN
    /\ CloseGraph(m, IF m.context THEN next ELSE [next EXCEPT !.state = "idle"])
    /\ stops' = stops \cup
                {[gen |-> m.gen + 1, cancel |-> TRUE, at |-> "quit"] : x \in {y \in {1} : m.context}}
    /\ UNCHANGED flights

\* The whole of stop({cancel}) up to its first wait.
BeginsStop(m, cancel) ==
    CASE m.state \in Quiet -> mic' = m /\ UNCHANGED <<tracks, stops, flights>>
      [] m.state = "requesting" -> QuitsRequest(m)
      [] m.state = "transcribing" ->
            /\ mic' = IF cancel THEN [m EXCEPT !.gen = @ + 1, !.state = "idle"] ELSE m
            /\ UNCHANGED <<tracks, stops, flights>>
      [] m.state = "stopping" ->
            /\ mic' = IF cancel THEN [m EXCEPT !.gen = @ + 1] ELSE m
            /\ UNCHANGED <<tracks, stops, flights>>
      [] OTHER ->
            /\ stops' = stops \cup {[gen |-> m.gen, cancel |-> cancel,
                                     at |-> IF cancel THEN "close" ELSE "flush"]}
            /\ IF cancel THEN CloseGraph(m, [m EXCEPT !.state = "stopping"])
               ELSE mic' = [m EXCEPT !.state = "stopping"] /\ UNCHANGED tracks
            /\ UNCHANGED flights

\* The worklet has flushed, or 150 ms have passed.
Flushes ==
    /\ \E s \in stops :
         /\ s.at = "flush" /\ CloseGraph(mic, mic)
         /\ stops' = (stops \ {s}) \cup {[s EXCEPT !.at = "close"]}
    /\ UNCHANGED <<starts, flights, drafted, cancelled, gestures, voiceVars>>

\* The audio context is closed: what was recorded is dropped, refused by encodeWav or sent.
GraphClosed ==
    /\ \E s \in stops :
         /\ s.at # "flush" /\ stops' = stops \ {s}
         /\ CASE s.at = "quit" -> mic' = [mic EXCEPT !.state = "idle"] /\ UNCHANGED flights
              [] s.at = "close" /\ (s.cancel \/ ~Counts(s)) ->
                   mic' = [mic EXCEPT !.gen = @ + 1, !.state = "idle"] /\ UNCHANGED flights
              [] OTHER ->
                   \/ mic' = [mic EXCEPT !.state = "error"] /\ UNCHANGED flights
                   \/ /\ mic' = [mic EXCEPT !.state = "transcribing"]
                      /\ flights' = flights \cup {s.gen}
    /\ UNCHANGED <<starts, tracks, drafted, cancelled, gestures, voiceVars>>

\* Mutant: an answer is used whether or not the transcription was cancelled.
MutTranscribed(g) == TRUE

Transcribed(g) == g = mic.gen

\* /api/transcribe answers: a transcript goes into the draft, an error is told.
TranscriptArrives ==
    /\ \E g \in flights :
         /\ flights' = flights \ {g}
         /\ IF ~Transcribed(g) THEN UNCHANGED <<mic, drafted>>
            ELSE \/ /\ drafted' = drafted \cup {g} /\ mic' = [mic EXCEPT !.state = "idle"]
                 \/ /\ mic' = [mic EXCEPT !.state = "error"] /\ UNCHANGED drafted
    /\ UNCHANGED <<starts, stops, tracks, cancelled, gestures, voiceVars>>

-----------------------------------------------------------------------------
(* input.js: the gestures. *)

Gesture == gestures > 0 /\ gestures' = gestures - 1

\* The recording whose progress, and Cancel button, are shown.
Underway == {g \in {mic.gen} : mic.state \in {"recording", "stopping", "transcribing"}}

\* The button: a click in toggle mode, a press in hold mode.
Presses ==
    /\ Gesture /\ mic.state \notin {"stopping", "transcribing"}
    /\ IF ~mic.hold /\ mic.state \in {"recording", "requesting"}
       THEN /\ BeginsStop(mic, FALSE) /\ UNCHANGED starts
       ELSE /\ ~mic.held
            /\ BeginsStart([mic EXCEPT !.held = mic.hold])
            /\ UNCHANGED <<stops, tracks, flights>>
    /\ UNCHANGED <<drafted, cancelled, voiceVars>>

\* The held button or key is released, or the two minutes are over.
Releases ==
    /\ \/ mic.held /\ Gesture
       \/ mic.state = "recording" /\ UNCHANGED gestures
    /\ BeginsStop([mic EXCEPT !.held = FALSE], FALSE)
    /\ UNCHANGED <<starts, drafted, cancelled, voiceVars>>

\* Cancel, Escape, a hidden page, another page or dialog, a lost pointer, a track that ended.
CallsOff ==
    /\ Gesture
    /\ BeginsStop([mic EXCEPT !.held = FALSE], TRUE)
    /\ cancelled' = cancelled \cup Underway
    /\ UNCHANGED <<starts, drafted, voiceVars>>

\* The mode may change while nothing is going on.
ChoosesMode ==
    /\ Gesture /\ mic.state \in Quiet
    /\ mic' = [mic EXCEPT !.hold = ~@]
    /\ UNCHANGED <<starts, stops, tracks, flights, drafted, cancelled, voiceVars>>

-----------------------------------------------------------------------------
(* output.js. *)

CanSpeak(v) == v.on /\ v.visible
Silenced(v) == [v EXCEPT !.token = @ + 1, !.speaking = FALSE]

SayStep == says > 0 /\ says' = says - 1
IdsOf(k) == {<<k, i>> : i \in 1 .. replies'[k]}
Newest(k) == <<k, replies'[k]>>

\* update: another conversation is learned silently; of several new replies the last is read.
Updated(v, k) ==
    LET fresh == IdsOf(k) \ v.known
        learned == [v EXCEPT !.known = @ \cup fresh]
        next == Silenced(learned) IN
    IF k # v.room
    THEN /\ voice' = [Silenced(v) EXCEPT !.room = k, !.known = IdsOf(k)] /\ UNCHANGED ends
    ELSE IF fresh # {} /\ CanSpeak(v)
    THEN /\ voice' = [next EXCEPT !.token = @ + 1, !.speaking = TRUE,
                                  !.twice = @ \/ Newest(k) \in v.spoken,
                                  !.spoken = @ \cup {Newest(k)}]
         /\ ends' = ends \cup {next.token + 1}
    ELSE voice' = learned /\ UNCHANGED ends

\* A snapshot with some new replies in some conversations, showing one of them.
ReplyComes ==
    /\ SayStep
    /\ \E k \in Rooms, n \in 0 .. 2, other \in 0 .. 1 :
         /\ replies' = [q \in Rooms |->
                          LET more == replies[q] + (IF q = k THEN n ELSE other) IN
                          IF more > MaxSays THEN replies[q] ELSE more]
         /\ Updated(voice, k)
    /\ UNCHANGED micVars

\* Mutant: the end of any utterance ends the one that is being read.
MutFinishes(v, t) == v.speaking

\* finish: only the end of the latest utterance counts.
Finishes(v, t) == t = v.token /\ v.speaking

UtteranceEnds ==
    /\ \E t \in ends :
         /\ ends' = ends \ {t}
         /\ voice' = IF Finishes(voice, t) THEN [voice EXCEPT !.speaking = FALSE] ELSE voice
    /\ UNCHANGED <<replies, says, micVars>>

\* Stop voice, another page, or a preference or visibility that changes (sync).
VoiceChanges ==
    /\ SayStep
    /\ \/ voice' = Silenced(voice)
       \/ \E on \in BOOLEAN :
            LET v == [voice EXCEPT !.on = on] IN
            voice' = IF CanSpeak(v) THEN v ELSE Silenced(v)
       \/ voice' = [voice EXCEPT !.visible = ~@]
    /\ UNCHANGED <<ends, replies, micVars>>

SpeechNext ==
    \/ Granted \/ ModuleLoads \/ StartFails \/ Flushes \/ GraphClosed \/ TranscriptArrives
    \/ Presses \/ Releases \/ CallsOff \/ ChoosesMode
    \/ ReplyComes \/ UtteranceEnds \/ VoiceChanges

SpeechSpec == SpeechInit /\ [][SpeechNext]_speechVars

-----------------------------------------------------------------------------
(* Properties. *)

\* A transcript of a recording the person cancelled, while it was shown to be recorded,
\* finished or transcribed, never reaches the draft, whichever calls run into each other.
TranscriptIsWanted == drafted \cap cancelled = {}

\* A reply is read aloud at most once, however the chats are opened, and the surface
\* says a voice is speaking exactly while the latest utterance has not ended.
VoiceIsTrue ==
    /\ ~voice.twice
    /\ voice.speaking <=> voice.token \in ends
=============================================================================
