-------------------------- MODULE ModemTaskProofs --------------------------
(***************************************************************************)
(* What holds of the modem task for every set of cards and all its limits. *)
(***************************************************************************)
EXTENDS ModemTask, TLAPS

-----------------------------------------------------------------------------
(* The types.  The switches are left to Zenon, the rest to SMT.            *)

\* At the start.
LEMMA TypedAtTheStart == Init => TypeOK
<1> SUFFICES ASSUME Init PROVE TypeOK
  OBVIOUS
<1>1. FlagsOK
  BY Zenon DEF Init, FlagsOK
<1>2. RangesOK
  <2>1. card \in Cards
    BY SomeCard DEF Init
  <2> QED
    BY <2>1, LimitsPositive DEF Init, RangesOK
<1> QED
  BY <1>1, <1>2 DEF TypeOK

\* A try to apply the data settings.
LEMMA ApplyFlags ==
  ASSUME FlagsOK, NEW ok \in BOOLEAN, ApplyOnce(ok)
  PROVE  (pdp \in BOOLEAN)'
BY Zenon DEF ApplyOnce, Wanted, FlagsOK

\* A step leaves every switch a switch.
LEMMA StepFlags == FlagsOK /\ [Next]_vars => FlagsOK'
<1> SUFFICES ASSUME FlagsOK, [Next]_vars PROVE FlagsOK'
  OBVIOUS
<1>1. CASE HandshakeOk
  BY <1>1 DEF HandshakeOk, modem, settings, flags, others, ghosts, FlagsOK
<1>2. CASE HandshakeFails
  BY <1>2, Zenon DEF HandshakeFails, ModemRestarts, settings, others, FlagsOK
<1>3. CASE Setup
  BY <1>3 DEF Setup, SelectStorage, settings, local, others, ghosts, FlagsOK
<1>4. CASE StartupData
  <2>1. (pdp \in BOOLEAN)'
    BY <1>4, ApplyFlags DEF StartupData
  <2>2. (reinit \in BOOLEAN /\ unapplied \in BOOLEAN)'
    BY <1>4, Zenon DEF StartupData
  <2> QED
    BY <1>4, <2>1, <2>2 DEF StartupData, settings, local, others, FlagsOK
<1>5. CASE PollRegistered
  BY <1>5 DEF PollRegistered, modem, settings, flags, others, ghosts, FlagsOK
<1>6. CASE PollAgain
  BY <1>6 DEF PollAgain, modem, settings, flags, others, ghosts, FlagsOK
<1>7. CASE AfterRegistration
  <2>1. (chosen \in BOOLEAN /\ pending \in BOOLEAN)'
    BY <1>7, Zenon DEF AfterRegistration, SelectStorage, FlagsOK
  <2> QED
    BY <1>7, <2>1 DEF AfterRegistration, settings, local, others, ghosts, FlagsOK
<1>8. CASE ReadIdentity
  BY <1>8 DEF ReadIdentity, modem, settings, status, flags, others, ghosts, FlagsOK
<1>9. CASE WriteIdentity
  BY <1>9 DEF WriteIdentity, Complete, modem, settings, flags, others, ghosts, FlagsOK
<1>10. CASE NoReset
  BY <1>10 DEF NoReset, modem, settings, status, flags, local, others, ghosts, FlagsOK
<1>11. CASE HandleReset
  <2>1. (pdp \in BOOLEAN /\ chosen \in BOOLEAN /\ unseen \in BOOLEAN)'
    <3>1. CASE ModemRestarts
      BY <3>1, Zenon DEF ModemRestarts
    <3>2. CASE UNCHANGED <<modem, unseen>>
      BY <3>2, Zenon DEF modem, FlagsOK
    <3> QED
      BY <1>11, <3>1, <3>2, Zenon DEF HandleReset
  <2>2. UNCHANGED <<settings, sampling, reinit, pending, registered, post, switching,
                    raced, untold, unapplied>>
    BY <1>11, Zenon DEF HandleReset, local, others
  <2> QED
    BY <2>1, <2>2, Zenon DEF settings, FlagsOK
<1>12. CASE AwaitFails
  BY <1>12 DEF AwaitFails, WantReinit, modem, settings, local, others, ghosts, FlagsOK
<1>13. CASE Reinit
  BY <1>13 DEF Reinit, modem, settings, flags, local, others, ghosts, FlagsOK
<1>14. CASE NoReinit
  BY <1>14 DEF NoReinit, modem, settings, status, flags, local, others, ghosts, FlagsOK
<1>15. CASE RetryData
  <2>1. (pdp \in BOOLEAN)'
    BY <1>15, ApplyFlags DEF RetryData
  <2>2. (unapplied \in BOOLEAN)'
    BY <1>15, Zenon DEF RetryData
  <2> QED
    BY <1>15, <2>1, <2>2 DEF RetryData, settings, local, others, FlagsOK
<1>16. CASE Sample
  BY <1>16, ZenonT(60) DEF Sample, modem, settings, status, local, others, ghosts, FlagsOK
<1>17. CASE ProbeRegistered
  BY <1>17 DEF ProbeRegistered, modem, settings, flags, others, ghosts, FlagsOK
<1>18. CASE ProbeUnregistered
  BY <1>18, ZenonT(60) DEF ProbeUnregistered, modem, settings, others, ghosts, FlagsOK
<1>19. CASE ProbeFails
  BY <1>19 DEF ProbeFails, modem, settings, status, others, ghosts, FlagsOK
<1>20. CASE NoProbe
  BY <1>20 DEF NoProbe, modem, settings, status, flags, local, others, ghosts, FlagsOK
<1>21. CASE SameCard
  BY <1>21 DEF SameCard, modem, settings, status, flags, others, ghosts, FlagsOK
<1>22. CASE CardInserted
  BY <1>22, Zenon DEF CardInserted, SelectStorage, Invalidate, settings, others, FlagsOK
<1>23. CASE CardRemoved
  BY <1>23, Zenon DEF CardRemoved, Invalidate, modem, settings, others, FlagsOK
<1>24. CASE NoCardCheck
  BY <1>24 DEF NoCardCheck, modem, settings, status, flags, local, others, ghosts, FlagsOK
<1>25. CASE RequestReset
  BY <1>25 DEF RequestReset, modem, settings, local, others, ghosts, FlagsOK
<1>26. CASE StartDownload
  BY <1>26 DEF StartDownload, settings, flags, local, ghosts, FlagsOK
<1>27. CASE EndDownload
  <2>1. (pdp \in BOOLEAN /\ unapplied \in BOOLEAN)'
    BY <1>27, Zenon DEF EndDownload, FlagsOK
  <2> QED
    BY <1>27, <2>1, SMTT(30) DEF EndDownload, settings, flags, local, ghosts, FlagsOK
<1>28. CASE SaveSettings
  <2>1. (dataOn \in BOOLEAN /\ roamingOn \in BOOLEAN)'
    BY <1>28 DEF SaveSettings
  <2>2. (pdp \in BOOLEAN /\ unapplied \in BOOLEAN)'
    BY <1>28, Zenon DEF SaveSettings, FlagsOK
  <2> QED
    BY <1>28, <2>1, <2>2 DEF SaveSettings, status, flags, local, others, FlagsOK
<1>29. CASE SwitchProfile
  BY <1>29, ZenonT(60) DEF SwitchProfile, settings, status, flags, local, FlagsOK
<1>30. CASE ProfileSwitched
  BY <1>30, Zenon DEF ProfileSwitched, Invalidate, modem, settings, local, FlagsOK
<1>31. CASE Reassert
  BY <1>31 DEF Reassert, modem, settings, status, flags, local, others, ghosts, FlagsOK
<1>32. CASE ModemBoots
  BY <1>32 DEF ModemBoots, settings, status, flags, local, others, ghosts, FlagsOK
<1>33. CASE ModemHangs
  BY <1>33 DEF ModemHangs, settings, status, flags, local, others, ghosts, FlagsOK
<1>34. CASE ModemResetsItself
  BY <1>34, Zenon DEF ModemResetsItself, settings, status, flags, local, others, FlagsOK
<1>35. CASE Attach
  BY <1>35 DEF Attach, settings, status, flags, local, others, ghosts, FlagsOK
<1>36. CASE Move
  BY <1>36 DEF Move, settings, status, flags, local, others, ghosts, FlagsOK
<1>37. CASE RemoveCard
  BY <1>37 DEF RemoveCard, settings, status, flags, local, others, FlagsOK
<1>38. CASE InsertCard
  BY <1>38 DEF InsertCard, settings, status, flags, local, others, ghosts, FlagsOK
<1>39. CASE UNCHANGED vars
  BY <1>39 DEF vars, modem, settings, status, flags, local, others, ghosts, FlagsOK
<1>40. CASE EnforcePolicy
  <2>1. (pdp \in BOOLEAN /\ unapplied \in BOOLEAN)'
    BY <1>40, Zenon DEF EnforcePolicy, FlagsOK
  <2> QED
    BY <1>40, <2>1 DEF EnforcePolicy, settings, status, flags, local, others, FlagsOK
<1> QED
  BY <1>1, <1>2, <1>3, <1>4, <1>5, <1>6, <1>7, <1>8, <1>9, <1>10, <1>11, <1>12, <1>13,
     <1>14, <1>15, <1>16, <1>17, <1>18, <1>19, <1>20, <1>21, <1>22, <1>23, <1>24, <1>25,
     <1>26, <1>27, <1>28, <1>29, <1>30, <1>31, <1>32, <1>33, <1>34, <1>35, <1>36, <1>37,
     <1>38, <1>39, <1>40
    DEF Next, Task, Probe, CardCheck, Environment

\* A step leaves every counter within its limit and every state one of those named.
LEMMA StepRanges == RangesOK /\ [Next]_vars => RangesOK'
<1> SUFFICES ASSUME RangesOK, [Next]_vars PROVE RangesOK'
  OBVIOUS
<1>1. CASE HandshakeOk
  BY <1>1, LimitsPositive DEF HandshakeOk, Answers, Idle, modem, settings, flags, others,
    ghosts, RangesOK
<1>2. CASE HandshakeFails
  BY <1>2, LimitsPositive DEF HandshakeFails, Answers, Idle, ModemRestarts, settings,
    others, RangesOK
<1>3. CASE Setup
  BY <1>3, LimitsPositive DEF Setup, SelectStorage, Answers, Idle, settings, local, others,
    ghosts, RangesOK
<1>4. CASE StartupData
  BY <1>4, LimitsPositive DEF StartupData, ApplyOnce, Answers, Idle, Wanted, ScheduleRetry,
    settings, local, others, RangesOK
<1>5. CASE PollRegistered
  BY <1>5, LimitsPositive DEF PollRegistered, Answers, Idle, OnNetwork, modem, settings,
    flags, others, ghosts, RangesOK
<1>6. CASE PollAgain
  BY <1>6, LimitsPositive DEF PollAgain, Answers, Idle, OnNetwork, modem, settings, flags,
    others, ghosts, RangesOK
<1>7. CASE AfterRegistration
  BY <1>7, LimitsPositive DEF AfterRegistration, Answers, Idle, SelectStorage, settings,
    local, others, ghosts, RangesOK
<1>8. CASE ReadIdentity
  BY <1>8, LimitsPositive DEF ReadIdentity, modem, settings, status, flags, others, ghosts,
    RangesOK
<1>9. CASE WriteIdentity
  BY <1>9, LimitsPositive DEF WriteIdentity, Complete, modem, settings, flags, others,
    ghosts, RangesOK
<1>10. CASE NoReset
  BY <1>10, LimitsPositive DEF NoReset, modem, settings, status, flags, local, others,
    ghosts, RangesOK
<1>11. CASE HandleReset
  BY <1>11, LimitsPositive DEF HandleReset, Answers, Idle, ModemRestarts, modem, settings,
    local, others, RangesOK
<1>12. CASE AwaitFails
  BY <1>12, LimitsPositive DEF AwaitFails, Answers, Idle, modem, settings, local, others,
    ghosts, RangesOK
<1>13. CASE Reinit
  BY <1>13, LimitsPositive DEF Reinit, Answers, Idle, modem, settings, flags, local,
    others, ghosts, RangesOK
<1>14. CASE NoReinit
  BY <1>14, LimitsPositive DEF NoReinit, Answers, Idle, modem, settings, status, flags,
    local, others, ghosts, RangesOK
<1>15. CASE RetryData
  BY <1>15, LimitsPositive DEF RetryData, Idle, ApplyOnce, Answers, Wanted, settings,
    local, others, RangesOK
<1>16. CASE Sample
  BY <1>16, LimitsPositive DEF Sample, Idle, modem, settings, status, local, others,
    ghosts, RangesOK
<1>17. CASE ProbeRegistered
  BY <1>17, LimitsPositive DEF ProbeRegistered, Answers, Idle, OnNetwork, AtProbe, modem,
    settings, flags, others, ghosts, RangesOK
<1>18. CASE ProbeUnregistered
  BY <1>18, LimitsPositive DEF ProbeUnregistered, Answers, Idle, OnNetwork, Escalates,
    AtProbe, modem, settings, others, ghosts, RangesOK
<1>19. CASE ProbeFails
  BY <1>19, LimitsPositive DEF ProbeFails, Idle, Escalates, AtProbe, modem, settings,
    status, others, ghosts, RangesOK
<1>20. CASE NoProbe
  BY <1>20, LimitsPositive DEF NoProbe, AtProbe, Idle, modem, settings, status, flags,
    local, others, ghosts, RangesOK
<1>21. CASE SameCard
  BY <1>21, LimitsPositive DEF SameCard, Idle, modem, settings, status, flags, others,
    ghosts, RangesOK
<1>22. CASE CardInserted
  BY <1>22, LimitsPositive DEF CardInserted, Answers, Idle, SelectStorage, Invalidate,
    settings, others, RangesOK
<1>23. CASE CardRemoved
  BY <1>23, LimitsPositive DEF CardRemoved, Idle, Invalidate, modem, settings, others,
    RangesOK
<1>24. CASE NoCardCheck
  BY <1>24, LimitsPositive DEF NoCardCheck, modem, settings, status, flags, local, others,
    ghosts, RangesOK
<1>25. CASE RequestReset
  BY <1>25, LimitsPositive DEF RequestReset, modem, settings, local, others, ghosts,
    RangesOK
<1>26. CASE StartDownload
  BY <1>26, LimitsPositive DEF StartDownload, Idle, settings, flags, local, ghosts,
    RangesOK
<1>27. CASE EndDownload
  BY <1>27, LimitsPositive DEF EndDownload, Idle, settings, flags, local, ghosts, RangesOK
<1>28. CASE SaveSettings
  BY <1>28, LimitsPositive DEF SaveSettings, Answers, Idle, settings, status, flags, local,
    others, RangesOK
<1>29. CASE SwitchProfile
  BY <1>29, LimitsPositive DEF SwitchProfile, Answers, Idle, settings, status, flags,
    local, RangesOK
<1>30. CASE ProfileSwitched
  BY <1>30, LimitsPositive DEF ProfileSwitched, Invalidate, modem, settings, local,
    RangesOK
<1>31. CASE Reassert
  BY <1>31, LimitsPositive DEF Reassert, Answers, Idle, OnNetwork, modem, settings, status,
    flags, local, others, ghosts, RangesOK
<1>32. CASE ModemBoots
  BY <1>32, LimitsPositive DEF ModemBoots, settings, status, flags, local, others, ghosts,
    RangesOK
<1>33. CASE ModemHangs
  BY <1>33, LimitsPositive DEF ModemHangs, settings, status, flags, local, others, ghosts,
    RangesOK
<1>34. CASE ModemResetsItself
  BY <1>34, LimitsPositive DEF ModemResetsItself, settings, status, flags, local, others,
    RangesOK
<1>35. CASE Attach
  BY <1>35, LimitsPositive DEF Attach, settings, status, flags, local, others, ghosts,
    RangesOK
<1>36. CASE Move
  BY <1>36, LimitsPositive DEF Move, OnNetwork, settings, status, flags, local, others,
    ghosts, RangesOK
<1>37. CASE RemoveCard
  BY <1>37, LimitsPositive DEF RemoveCard, settings, status, flags, local, others,
    RangesOK
<1>38. CASE InsertCard
  BY <1>38, LimitsPositive DEF InsertCard, settings, status, flags, local, others, ghosts,
    RangesOK
<1>39. CASE UNCHANGED vars
  BY <1>39, LimitsPositive DEF vars, modem, settings, status, flags, local, others, ghosts, RangesOK
<1>40. CASE EnforcePolicy
  BY <1>40, LimitsPositive DEF EnforcePolicy, settings, status, flags, local, others, RangesOK
<1> QED
  BY <1>1, <1>2, <1>3, <1>4, <1>5, <1>6, <1>7, <1>8, <1>9, <1>10, <1>11, <1>12, <1>13,
     <1>14, <1>15, <1>16, <1>17, <1>18, <1>19, <1>20, <1>21, <1>22, <1>23, <1>24, <1>25,
     <1>26, <1>27, <1>28, <1>29, <1>30, <1>31, <1>32, <1>33, <1>34, <1>35, <1>36, <1>37,
     <1>38, <1>39, <1>40
    DEF Next, Task, Probe, CardCheck, Environment

-----------------------------------------------------------------------------
(* The identity shown.                                                     *)

\* A step keeps what is known of the identity in hand and of the one shown.
LEMMA StepIdentity ==
  RangesOK /\ ReadInHand /\ CurrentUnlessOut /\ [Next]_vars => ReadInHand' /\ CurrentUnlessOut'
<1> SUFFICES ASSUME RangesOK, ReadInHand, CurrentUnlessOut, [Next]_vars
             PROVE  ReadInHand' /\ CurrentUnlessOut'
  OBVIOUS
<1> USE NoneIsNoCard DEF RangesOK, ReadInHand, CurrentUnlessOut
<1>1. CASE HandshakeOk
  BY <1>1 DEF HandshakeOk, modem, settings, flags, others, ghosts
<1>2. CASE HandshakeFails
  BY <1>2 DEF HandshakeFails, ModemRestarts, settings, others
<1>3. CASE Setup
  BY <1>3 DEF Setup, SelectStorage, settings, local, others, ghosts
<1>4. CASE StartupData
  BY <1>4 DEF StartupData, ApplyOnce, settings, local, others
<1>5. CASE PollRegistered
  BY <1>5 DEF PollRegistered, modem, settings, flags, others, ghosts
<1>6. CASE PollAgain
  BY <1>6 DEF PollAgain, modem, settings, flags, others, ghosts
<1>7. CASE AfterRegistration
  BY <1>7 DEF AfterRegistration, SelectStorage, settings, local, others, ghosts
<1>8. CASE ReadIdentity
  BY <1>8 DEF ReadIdentity, modem, settings, status, flags, others, ghosts
<1>9. CASE WriteIdentity
  BY <1>9 DEF WriteIdentity, modem, settings, flags, others, ghosts
<1>10. CASE NoReset
  BY <1>10 DEF NoReset, modem, settings, status, flags, local, others, ghosts
<1>11. CASE HandleReset
  BY <1>11 DEF HandleReset, ModemRestarts, modem, settings, local, others
<1>12. CASE AwaitFails
  BY <1>12 DEF AwaitFails, modem, settings, local, others, ghosts
<1>13. CASE Reinit
  BY <1>13 DEF Reinit, modem, settings, flags, local, others, ghosts
<1>14. CASE NoReinit
  BY <1>14 DEF NoReinit, modem, settings, status, flags, local, others, ghosts
<1>15. CASE RetryData
  BY <1>15 DEF RetryData, ApplyOnce, settings, local, others
<1>16. CASE Sample
  BY <1>16 DEF Sample, modem, settings, status, local, others, ghosts
<1>17. CASE ProbeRegistered
  BY <1>17 DEF ProbeRegistered, AtProbe, modem, settings, flags, others, ghosts
<1>18. CASE ProbeUnregistered
  BY <1>18 DEF ProbeUnregistered, AtProbe, modem, settings, others, ghosts
<1>19. CASE ProbeFails
  BY <1>19 DEF ProbeFails, AtProbe, modem, settings, status, others, ghosts
<1>20. CASE NoProbe
  BY <1>20 DEF NoProbe, AtProbe, modem, settings, status, flags, local, others, ghosts
<1>21. CASE SameCard
  BY <1>21 DEF SameCard, Present, modem, settings, status, flags, others, ghosts
<1>22. CASE CardInserted
  BY <1>22 DEF CardInserted, SelectStorage, Invalidate, settings, others
<1>23. CASE CardRemoved
  BY <1>23 DEF CardRemoved, Invalidate, Present, modem, settings, others
<1>24. CASE NoCardCheck
  BY <1>24 DEF NoCardCheck, modem, settings, status, flags, local, others, ghosts
<1>25. CASE RequestReset
  BY <1>25 DEF RequestReset, modem, settings, local, others, ghosts
<1>26. CASE StartDownload
  BY <1>26 DEF StartDownload, settings, flags, local, ghosts
<1>27. CASE EndDownload
  BY <1>27 DEF EndDownload, settings, flags, local, ghosts
<1>28. CASE SaveSettings
  BY <1>28 DEF SaveSettings, settings, status, flags, local, others
<1>29. CASE SwitchProfile
  BY <1>29 DEF SwitchProfile, settings, status, flags, local
<1>30. CASE ProfileSwitched
  BY <1>30 DEF ProfileSwitched, Invalidate, modem, settings, local
<1>31. CASE Reassert
  BY <1>31 DEF Reassert, modem, settings, status, flags, local, others, ghosts
<1>32. CASE ModemBoots
  BY <1>32 DEF ModemBoots, settings, status, flags, local, others, ghosts
<1>33. CASE ModemHangs
  BY <1>33 DEF ModemHangs, settings, status, flags, local, others, ghosts
<1>34. CASE ModemResetsItself
  BY <1>34 DEF ModemResetsItself, settings, status, flags, local, others
<1>35. CASE Attach
  BY <1>35 DEF Attach, settings, status, flags, local, others, ghosts
<1>36. CASE Move
  BY <1>36 DEF Move, settings, status, flags, local, others, ghosts
<1>37. CASE RemoveCard
  BY <1>37 DEF RemoveCard, settings, status, flags, local, others
<1>38. CASE InsertCard
  BY <1>38 DEF InsertCard, settings, status, flags, local, others, ghosts
<1>39. CASE UNCHANGED vars
  BY <1>39 DEF vars, modem, settings, status, flags, local, others, ghosts
<1>40. CASE EnforcePolicy
  BY <1>40 DEF EnforcePolicy, settings, status, flags, local, others
<1> QED
  BY <1>1, <1>2, <1>3, <1>4, <1>5, <1>6, <1>7, <1>8, <1>9, <1>10, <1>11, <1>12, <1>13,
     <1>14, <1>15, <1>16, <1>17, <1>18, <1>19, <1>20, <1>21, <1>22, <1>23, <1>24, <1>25,
     <1>26, <1>27, <1>28, <1>29, <1>30, <1>31, <1>32, <1>33, <1>34, <1>35, <1>36, <1>37,
     <1>38, <1>39, <1>40
    DEF Next, Task, Probe, CardCheck, Environment

\* Every variable stays in its range, and the identity on the page is that of
\* the card in use once a change has been noticed or told, whatever was reset,
\* hung, lost, moved or swapped in between (idf_modem.cpp:1588, 2206).
THEOREM IdentityIsCurrent == Spec => []IdentityShown
<1>1. Init => IdentityInv
  <2> SUFFICES ASSUME Init PROVE IdentityInv
    OBVIOUS
  <2> QED
    BY TypedAtTheStart DEF Init, IdentityInv, ReadInHand, CurrentUnlessOut
<1>2. IdentityInv /\ [Next]_vars => IdentityInv'
  BY StepFlags, StepRanges, StepIdentity DEF IdentityInv, TypeOK
<1>3. IdentityInv => IdentityShown
  BY DEF IdentityInv, CurrentUnlessOut, IdentityShown, IdentityCurrent
<1> QED
  BY <1>1, <1>2, <1>3, PTL DEF Spec
=============================================================================
