------------------------------ MODULE TtsStub -------------------------------
(***************************************************************************)
(* tts_stub.cpp, and the way from a text to what the callee hears: synth() *)
(* writes tts_stub.wav in the recording directory during step 5 of run(),  *)
(* and the player opens it once the answer delay is over.  Several agents  *)
(* started in one directory share the file.  A text is its number of       *)
(* words, a sample "tone" or "quiet".                                      *)
(***************************************************************************)
EXTENDS Integers, Sequences, FiniteSets

CONSTANTS
    Agents,              \* processes with the same --record-dir
    Texts,               \* numbers of words
    samples_per_word, samples_pause,
    U32,                 \* 2^32
    MaxCalls,            \* calls of each agent
    None                 \* no file

ASSUME TtsAssumption ==
    /\ Texts \subseteq Nat
    /\ {samples_per_word, samples_pause, U32} \subseteq Nat \ {0}
    /\ U32 % 2 = 0
    /\ MaxCalls \in Nat

VARIABLES
    wav,     \* tts_stub.wav: [riff, data, samples]; None: it does not exist
    pc,      \* where each agent is
    text,    \* the text of its call
    sole,    \* nobody else has touched the file since it opened it
    calls    \* calls begun

ttsVars == <<wav, pc, text, sole, calls>>

-----------------------------------------------------------------------------
(* synth() and writeWav() as functions of the number of words.             *)

Times(n, sample) == [i \in 1 .. n |-> sample]

\* A pause after the last word too (mutant).
WordSamplesPaused(i, words) ==
    Times(samples_per_word, "tone") \o Times(samples_pause, "quiet")

WordSamples(i, words) ==
    Times(samples_per_word, "tone")
        \o (IF i < words THEN Times(samples_pause, "quiet") ELSE <<>>)

\* sofar[i] is the vector after i turns of the loop over the words.
samples(words) ==
    LET sofar[i \in 0 .. words] ==
            IF i = 0 THEN <<>> ELSE sofar[i - 1] \o WordSamples(i, words)
    IN  sofar[words]

data_bytes(s) == (Len(s) * 2) % U32

\* What a file that was opened for writing holds at the end; f.write() is told
\* data_bytes too.
writeWav(s) ==
    [riff |-> (36 + data_bytes(s)) % U32, data |-> data_bytes(s),
     samples |-> SubSeq(s, 1, data_bytes(s) \div 2)]

\* What is left when a shorter file goes over a longer one.
Over(new, old) ==
    IF old = None THEN new
    ELSE [new EXCEPT !.samples =
            @ \o SubSeq(old.samples, Len(@) + 1, Len(old.samples))]

\* std::ofstream opens without truncating (mutant).
TruncatedNot == wav

Empty == [riff |-> 0, data |-> 0, samples |-> <<>>]

Truncated == Empty

-----------------------------------------------------------------------------
Init ==
    /\ wav = None
    /\ pc = [a \in Agents |-> "idle"]
    /\ text = [a \in Agents |-> 0]
    /\ sole = [a \in Agents |-> FALSE]
    /\ calls = [a \in Agents |-> 0]

\* No words: synth() returns an empty path and touches no file.
Synth(a) ==
    /\ pc[a] \in {"idle", "done"} /\ calls[a] < MaxCalls
    /\ calls' = [calls EXCEPT ![a] = @ + 1]
    /\ sole' = [sole EXCEPT ![a] = FALSE]
    /\ \E words \in Texts :
          /\ text' = [text EXCEPT ![a] = words]
          /\ pc' = [pc EXCEPT ![a] = IF words = 0 THEN "pathless" ELSE "open"]
    /\ UNCHANGED wav

Open(a) ==
    /\ pc[a] = "open"
    /\ wav' = Truncated
    /\ pc' = [pc EXCEPT ![a] = "write"]
    /\ sole' = [b \in Agents |-> b = a]
    /\ UNCHANGED <<text, calls>>

Write(a) ==
    /\ pc[a] = "write"
    /\ wav' = Over(writeWav(samples(text[a])), wav)
    /\ pc' = [pc EXCEPT ![a] = "delay"]
    /\ sole' = [b \in Agents |-> b = a /\ sole[a]]
    /\ UNCHANGED <<text, calls>>

\* A file that cannot be opened or written: nobody looks at the stream, and
\* synth() returns the path all the same.
WriteFails(a) ==
    /\ pc[a] \in {"open", "write"}
    /\ pc' = [pc EXCEPT ![a] = "unwritten"]
    /\ UNCHANGED <<wav, text, sole, calls>>

\* The player opens whatever is there, and throws at an empty path and at a file
\* without sound.
Play(a) ==
    /\ pc[a] \in {"delay", "unwritten", "pathless"}
    /\ pc' = [pc EXCEPT ![a] = IF pc[a] = "pathless" \/ wav \in {None, Empty}
                               THEN "thrown" ELSE "done"]
    /\ UNCHANGED <<wav, text, sole, calls>>

Next ==
    \E a \in Agents : Synth(a) \/ Open(a) \/ Write(a) \/ WriteFails(a) \/ Play(a)

Spec == Init /\ [][Next]_ttsVars

-----------------------------------------------------------------------------
(* Properties.                                                             *)

\* Where in a file a tone begins.
Beeps(s) ==
    {i \in 1 .. Len(s) : s[i] = "tone" /\ (i = 1 \/ s[i - 1] = "quiet")}

\* A tone of the length of a word begins at i, and then it is quiet.
FullBeep(s, i) ==
    /\ i + samples_per_word - 1 <= Len(s)
    /\ \A j \in i .. i + samples_per_word - 1 : s[j] = "tone"
    /\ i + samples_per_word <= Len(s) => s[i + samples_per_word] = "quiet"

\* Whole words: nothing was cut off by the 32 bits of data_bytes.
Fits(words) == Len(samples(words)) * 2 < U32

\* Whatever earlier calls and other agents left in the file, and however long
\* the text, an agent that was the last to open and write it has a file whose
\* header counts the bytes that follow it (the test "WavHeaderIsValid", for one
\* short text in a directory of its own).
HeaderFits ==
    \A a \in Agents :
        pc[a] = "delay" /\ sole[a] =>
            /\ wav.data = 2 * Len(wav.samples)
            /\ wav.riff = (36 + wav.data) % U32

\* The file it then plays, if nobody else touches it, has one beep of full
\* length for each word, none running into the next, and ends with the last one.
OneBeepPerWord ==
    \A a \in Agents :
        pc[a] = "delay" /\ sole[a] /\ Fits(text[a]) =>
            /\ Cardinality(Beeps(wav.samples)) = text[a]
            /\ \A i \in Beeps(wav.samples) : FullBeep(wav.samples, i)
            /\ wav.samples[Len(wav.samples)] = "tone"
=============================================================================
