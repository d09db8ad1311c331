\* Two maintainers publish one build while a manifest is signed.
CONSTANTS
    i1 = i1
    i2 = i2
    m1 = m1
    package = package
    manifest = manifest
    Intents = {i1, i2, m1}
    Objects = {package, manifest}
    ObjectOf <- ObjectOfIntents
    Manifests = {manifest}
    NoSignature = NoSignature
CHECK_DEADLOCK FALSE
SPECIFICATION IntentSpec
INVARIANTS
    SignatureIsRecorded
PROPERTIES
    FinalIntentStays
    SettledSignatureStays
