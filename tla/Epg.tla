-------------------------------- MODULE Epg --------------------------------
(***************************************************************************)
(* The programme guide (modules/epg): the import of an XMLTV file, which   *)
(* saves its channels, looks up the rows of all channels and saves its     *)
(* programmes one by one, without a transaction, beside the deletion of    *)
(* channels and other imports.  What a channel is called is left out.      *)
(***************************************************************************)
EXTENDS Integers, Sequences, FiniteSets

CONSTANTS
    EpgIds,       \* the ids that files give to channels
    XmltvFiles,   \* files, see XmltvFile
    Imports,      \* the requests
    EpgRowMax,    \* bound: rows ever inserted
    RemovalMax    \* bound: channels deleted

\* Channels, and programmes each on a channel, the dates of which can be read or not.
Programme == [on : EpgIds, dated : BOOLEAN]
XmltvFile == [channels : Seq(EpgIds), shows : Seq(Programme)]

ASSUME EpgAssumption ==
    EpgRowMax \in Nat /\ RemovalMax \in Nat /\ XmltvFiles \subseteq XmltvFile

VARIABLES
    epgRows,      \* epg_channels: [id, epg]
    programmes,   \* epg_programs: [row, file, at, by]
    epgSerial,    \* ids given out
    import,       \* import[r]: where request r is
    removed,      \* removed[r]: the ids deleted since r came
    removals

epgVars == <<epgRows, programmes, epgSerial, import, removed, removals>>

Unasked == [pc |-> "none", file |-> {}, channels |-> <<>>, shows |-> <<>>, id |-> 0, byEpgId |-> {}]

EpgInit ==
    /\ epgRows = {} /\ programmes = {} /\ epgSerial = 0
    /\ import = [r \in Imports |-> Unasked]
    /\ removed = [r \in Imports |-> {}] /\ removals = 0

ImportGoes(r, fields) == import' = [import EXCEPT ![r] = fields]
ImportFails(r)        == ImportGoes(r, [import[r] EXCEPT !.pc = "failed"])

\* Once its channels are saved, an import goes on to its programmes.
Afterwards(i) == IF i.channels = <<>> THEN "map" ELSE "find"

\* POST /epg/import, of a file that may be beyond reach; POST /epg/channels saves one
\* channel in the same way.
ImportXmltv(r) ==
    /\ import[r].pc = "none"
    /\ \/ ImportFails(r)
       \/ \E file \in XmltvFiles :
              LET i == [Unasked EXCEPT !.file = file, !.channels = file.channels, !.shows = file.shows]
              IN  ImportGoes(r, [i EXCEPT !.pc = Afterwards(i)])
    /\ removed' = [removed EXCEPT ![r] = {}]
    /\ UNCHANGED <<epgRows, programmes, epgSerial, removals>>

\* upsertChannel() looks for the row of the next channel.
FindChannel(r) ==
    LET own == {row \in epgRows : row.epg = Head(import[r].channels)}
    IN  /\ import[r].pc = "find"
        /\ \/ own # {} /\ \E row \in own :
                  ImportGoes(r, [import[r] EXCEPT !.pc = "load", !.id = row.id])
           \/ own = {} /\ ImportGoes(r, [import[r] EXCEPT !.pc = "insert", !.id = 0])
        /\ UNCHANGED <<epgRows, programmes, epgSerial, removed, removals>>

\* save() of an entity with an id reads its row: one that is gone will be inserted again.
LoadChannel(r) ==
    /\ import[r].pc = "load"
    /\ ImportGoes(r, [import[r] EXCEPT !.pc =
           IF \E row \in epgRows : row.id = import[r].id THEN "update" ELSE "insert"])
    /\ UNCHANGED <<epgRows, programmes, epgSerial, removed, removals>>

Onwards(i) ==
    LET left == [i EXCEPT !.channels = Tail(i.channels), !.id = 0]
    IN  [left EXCEPT !.pc = Afterwards(left)]

ChannelDone(r) == ImportGoes(r, Onwards(import[r]))

\* The update of a row that has just been deleted writes nothing, and says nothing.
UpdateChannel(r) ==
    /\ import[r].pc = "update"
    /\ ChannelDone(r)
    /\ UNCHANGED <<epgRows, programmes, epgSerial, removed, removals>>

\* epg_id is unique: where another request has inserted it meanwhile, the import fails.
InsertChannel(r) ==
    LET epg   == Head(import[r].channels)
        taken == \E row \in epgRows : row.epg = epg \/ row.id = import[r].id
        fresh == import[r].id = 0
    IN  /\ import[r].pc = "insert"
        /\ \/ taken /\ ImportFails(r) /\ UNCHANGED <<epgRows, epgSerial>>
           \/ /\ ~taken /\ (fresh => epgSerial < EpgRowMax)
              /\ epgSerial' = IF fresh THEN epgSerial + 1 ELSE epgSerial
              /\ epgRows' = epgRows \cup
                     {[id |-> IF fresh THEN epgSerial' ELSE import[r].id, epg |-> epg]}
              /\ ChannelDone(r)
        /\ UNCHANGED <<programmes, removed, removals>>

\* byEpgId: all channels there are, not only those of the file.
MapChannels(r) ==
    /\ import[r].pc = "map"
    /\ ImportGoes(r, [import[r] EXCEPT !.pc = "shows", !.byEpgId = epgRows])
    /\ UNCHANGED <<epgRows, programmes, epgSerial, removed, removals>>

\* Mutant of Skipped: a programme of a channel that is not listed ends the import.
SkippedAll(shows) == <<>>

Skipped(shows) == Tail(shows)

\* A programme of a channel that is not listed, or without readable dates, is skipped;
\* one whose channel has been deleted since byEpgId was read breaks a foreign key.
SaveProgramme(r) ==
    LET shows == import[r].shows
        show  == Head(shows)
        rows  == {row \in import[r].byEpgId : row.epg = show.on}
    IN  /\ import[r].pc = "shows" /\ shows # <<>>
        /\ IF rows = {} \/ ~show.dated
           THEN /\ ImportGoes(r, [import[r] EXCEPT !.shows = Skipped(shows)])
                /\ UNCHANGED programmes
           ELSE \E row \in rows :
                    IF \E kept \in epgRows : kept.id = row.id
                    THEN /\ programmes' = programmes \cup
                                {[row |-> row.id, file |-> import[r].file, at |-> Len(shows), by |-> r]}
                         /\ ImportGoes(r, [import[r] EXCEPT !.shows = Tail(shows)])
                    ELSE ImportFails(r) /\ UNCHANGED programmes
        /\ UNCHANGED <<epgRows, epgSerial, removed, removals>>

AnswerImport(r) ==
    /\ import[r].pc = "shows" /\ import[r].shows = <<>>
    /\ ImportGoes(r, [import[r] EXCEPT !.pc = "answered", !.byEpgId = {}])
    /\ UNCHANGED <<epgRows, programmes, epgSerial, removed, removals>>

\* DELETE /epg/channels/:id, with the programmes of the channel.
RemoveChannel(row) ==
    /\ row \in epgRows /\ removals < RemovalMax
    /\ removals' = removals + 1
    /\ epgRows' = epgRows \ {row}
    /\ programmes' = {p \in programmes : p.row # row.id}
    /\ removed' = [r \in Imports |-> removed[r] \cup {row.epg}]
    /\ UNCHANGED <<epgSerial, import>>

EpgNext ==
    \/ \E r \in Imports :
           \/ ImportXmltv(r) \/ FindChannel(r) \/ LoadChannel(r) \/ UpdateChannel(r)
           \/ InsertChannel(r) \/ MapChannels(r) \/ SaveProgramme(r) \/ AnswerImport(r)
    \/ \E row \in epgRows : RemoveChannel(row)

EpgSpec == EpgInit /\ [][EpgNext]_epgVars

----------------------------------------------------------------------------
EpgRow == [id : 1..EpgRowMax, epg : EpgIds]

Import ==
    [pc : {"none", "find", "load", "update", "insert", "map", "shows", "answered", "failed"},
     file : XmltvFiles \cup {{}}, channels : Seq(EpgIds), shows : Seq(Programme),
     id : 0..EpgRowMax, byEpgId : SUBSET EpgRow]

\* Types; neither an id nor an epg_id is given to two rows.
EpgTypeOK ==
    /\ epgRows \subseteq EpgRow
    /\ \A a, b \in epgRows : a.id = b.id \/ a.epg = b.epg => a = b
    /\ \A row \in epgRows : row.id <= epgSerial
    /\ epgSerial \in 0..EpgRowMax
    /\ import \in [Imports -> Import]
    /\ removed \in [Imports -> SUBSET EpgIds]
    /\ removals \in 0..RemovalMax

\* An import that is answered has told the truth: each programme of its file with readable
\* dates, on a channel the file declares, is in the guide under the row that has the
\* channel's id now, whatever other imports did meanwhile, unless the channel was deleted.
GuideHolds ==
    \A r \in Imports : import[r].pc = "answered" =>
        LET file == import[r].file
        IN  \A n \in DOMAIN file.shows :
                LET show == file.shows[n]
                IN  show.dated /\ show.on \in {file.channels[c] : c \in DOMAIN file.channels}
                        => \/ show.on \in removed[r]
                           \/ \E row \in epgRows, p \in programmes :
                                  /\ row.epg = show.on /\ p.row = row.id
                                  /\ p.by = r /\ p.at = Len(file.shows) - n + 1
=============================================================================
