------------------------ MODULE ApplicationRefinement ------------------------
(* Application without faults implements ReplicatedLog.                     *)
EXTENDS Application

\* The first certificate at a height decides it; finalize ignores any other,
\* and one of the null digest, so the certificates alone determine the log.
BlockCerts == {k \in DOMAIN certs : notarized[certs[k]] # NullDigest}
CertifiedAt(h) == {k \in BlockCerts : HeightOf(notarized[certs[k]]) = h}
FirstAt(h) == CHOOSE k \in CertifiedAt(h) : \A j \in CertifiedAt(h) : k <= j
Decided ==
    [h \in {HeightOf(notarized[certs[k]]) : k \in BlockCerts} |-> notarized[certs[FirstAt(h)]]]

Log == INSTANCE ReplicatedLog
       WITH decided <- Decided, logs <- finalizedLog, MaxLength <- MaxView

\* Although verify accepts digests of blocks it has never seen and finalize
\* compares nothing but heights, the validators together are one replicated
\* log: each finalizes the decided blocks in order, none is skipped or
\* replaced.
LogSpec == Log!Spec

\* A decided block reaches every validator: no certificate is ignored for
\* good, although the actor forgets one whose block is not pending.
EverythingLearned == Log!AllLearned
=============================================================================
