SPECIFICATION Spec
CONSTANT CommandLines <- AsInReadme
INVARIANT UsageAccepted
